---- MODULE Spec2Model ----
(***************************************************************************)
(* Sales-note services (notas-service, catalogos-service): the stores, the  *)
(* create-note saga, the document store and the catalog CRUD handlers.     *)
(*                                                                         *)
(* Fixed-point values (Python Decimal) are integers in a fixed unit:       *)
(*   cantidad                      in halves      (2 = 1, 3 = 1.5, 4 = 2)   *)
(*   precio_base, precio_unitario  in cents       (35000 = 350.00)         *)
(*   importe, total                in half-cents  (cantidad * precio)      *)
(* so that Decimal multiplication and addition are exact integer           *)
(* multiplication and addition.                                            *)
(***************************************************************************)
EXTENDS Integers, Sequences, FiniteSets, TLC

\* ------------------------------------------------------------ bounds
\* Notes that may be stored before new create requests stop being issued.
MaxNotas == 1
\* Longest product list of a create request.
MaxProductos == 2
\* Last instant of the clock (one instant = one calendar day).
MaxDay == 2
MaxEnvios == 3

\* ------------------------------------------------------------ inputs
Procs == {1, 2}

ClienteIds == {"c1"}
DomicilioIds == {"d1", "d2"}
ProductoIds == {"p1", "p2"}

\* First 8 characters of a uuid4 (the rest is modelled by a serial number):
\* 32 random bits, which two uuid4 values may share.
Frags == {"A1B2C3D4", "0F0F0F0F"}

\* Customer bodies accepted by validate_cliente.
ClienteInputs == {[rfc |-> "ETE201125XYZ", correo |-> "test@example.com"]}

\* Address bodies accepted by validate_domicilio.
DomicilioInputs == {[cliente_id |-> "c1", tipo |-> "FACTURACION"]}

\* Product bodies accepted by validate_producto (precio_base in cents).
ProductoInputs ==
    {[nombre |-> "Laptop", precio_base |-> 2500000],
     [nombre |-> "Mouse", precio_base |-> 35000]}


ApiGatewayUrl == "https://api/dev"

\* ------------------------------------------------------------ state
VARIABLES
    clientes,     \* table Clientes: id -> item
    domicilios,   \* table Domicilios: id -> item
    productos,    \* table Productos: id -> item
    notas,        \* table NotasVenta: id -> item
    contenido,    \* table ContenidoNotasVenta: id -> item
    bucket,       \* S3 bucket: key -> [body, metadata]
    topic,        \* messages published to the SNS topic, in order
    delivered,    \* how many of them SNS has handed to notifications-service
    clock,        \* last value returned by datetime.now()
    req           \* per handler invocation: position, locals, response

vars == <<clientes, domicilios, productos, notas, contenido, bucket, topic,
          delivered, clock, req>>

stores == <<notas, contenido, bucket, topic, delivered>>
catalog == <<clientes, domicilios, productos>>

\* ------------------------------------------------------------ helpers
EmptyMap == [x \in {} |-> TRUE]

PutItem(table, key, item) ==
    [x \in (DOMAIN table) \cup {key} |-> IF x = key THEN item ELSE table[x]]

DeleteItem(table, key) ==
    [x \in (DOMAIN table) \ {key} |-> table[x]]

\* datetime.now(): the clock's value (time passes by Tick).
Now == clock

Max(S) == CHOOSE x \in S : \A y \in S : y <= x

\* The uuids that are stored in a table or held by a running invocation.
UuidsInUse ==
    DOMAIN notas \cup DOMAIN contenido \cup {req[p].nota.id : p \in DOMAIN req}

\* str(uuid.uuid4()): its first 8 characters and the rest.  The value differs
\* from every uuid issued before; one that was never stored nor is held is
\* observed nowhere, so the rest is the least serial number above those in use.
Uuid4(frag) == [hi |-> frag, lo |-> 1 + Max({id.lo : id \in UuidsInUse})]

\* Python int(x) of a number given in halves: truncation toward zero.
IntOf(halves) == IF halves >= 0 THEN halves \div 2 ELSE -((-halves) \div 2)

RECURSIVE SumImportes(_)
SumImportes(s) ==
    IF s = <<>> THEN 0 ELSE s[1].importe + SumImportes(Tail(s))

\* ------------------------------------------------------------ requests
NoData == [cliente_id |-> "", direccion_facturacion_id |-> "",
           direccion_envio_id |-> "", productos |-> <<>>]

NoCliente == [rfc |-> "", correo |-> ""]

NoNota == [id |-> [hi |-> "", lo |-> 0], folio |-> <<0, "">>, cliente_id |-> "",
           direccion_facturacion_id |-> "", direccion_envio_id |-> "",
           total |-> 0, created_at |-> 0]

NoBody == [error |-> ""]

NoKey == <<"", <<0, "">>>>

NoMetadata == [hora_envio |-> 0, nota_descargada |-> "", veces_enviado |-> 0]

NoPdf == [cliente |-> NoCliente, folio |-> <<0, "">>, filas |-> <<>>, total |-> 0]

Idle ==
    [op |-> "none", pc |-> "idle", data |-> NoData, cliente |-> NoCliente,
     dir_fact |-> FALSE, dir_envio |-> FALSE, total |-> 0, contenidos |-> <<>>,
     nota |-> NoNota, saved |-> 0, key |-> NoKey, veces_enviado |-> 0,
     metadata |-> NoMetadata, pdf |-> NoPdf,
     publicado |-> FALSE, calls |-> <<>>, status |-> 0, body |-> NoBody]

\* Product entries of a request body (cantidad in halves: 0, 1 and 2).
Entradas ==
    {[producto_id |-> "p1", cantidad |-> 0], [producto_id |-> "p1", cantidad |-> 2],
     [producto_id |-> "p2", cantidad |-> 0], [producto_id |-> "p2", cantidad |-> 4]}

RECURSIVE SeqsUpTo(_, _)
SeqsUpTo(S, n) ==
    IF n = 0 THEN {<<>>}
    ELSE LET shorter == SeqsUpTo(S, n - 1)
         IN  shorter \cup {Append(s, x) : s \in {t \in shorter : Len(t) = n - 1}, x \in S}

\* Create-note request bodies: every product list with all three keys given,
\* and a body per missing key.  "" and <<>> stand for a field that is absent,
\* null or empty: Python's `field not in data or not data[field]`.
FullData(lista) ==
    [cliente_id |-> "c1", direccion_facturacion_id |-> "d1",
     direccion_envio_id |-> "d2", productos |-> lista]

UnaEntrada == <<[producto_id |-> "p1", cantidad |-> 2]>>

NotaInputs ==
    {FullData(ps) : ps \in SeqsUpTo(Entradas, MaxProductos)}
    \cup {[FullData(UnaEntrada) EXCEPT !.cliente_id = ""],
          [FullData(UnaEntrada) EXCEPT !.direccion_facturacion_id = ""],
          [FullData(UnaEntrada) EXCEPT !.direccion_envio_id = ""]}

\* The body of the end-to-end scenario: quantities 1 and 2 of two products.
NotaInputsE2E ==
    {FullData(<<[producto_id |-> "p1", cantidad |-> 2],
                [producto_id |-> "p2", cantidad |-> 4]>>)}

\* ------------------------------------------------------------ validation
\* validate_nota_venta with the quantity test off by one: `< 0` for `<= 0`.
validate_nota_venta_lt(data) ==
    IF data.cliente_id = "" THEN <<FALSE, "Campo requerido: cliente_id">>
    ELSE IF data.direccion_facturacion_id = ""
        THEN <<FALSE, "Campo requerido: direccion_facturacion_id">>
    ELSE IF data.direccion_envio_id = ""
        THEN <<FALSE, "Campo requerido: direccion_envio_id">>
    ELSE IF data.productos = <<>> THEN <<FALSE, "Campo requerido: productos">>
    ELSE IF \E i \in 1..Len(data.productos) : IntOf(data.productos[i].cantidad) < 0
        THEN <<FALSE, "Cantidad debe ser mayor a 0">>
    ELSE <<TRUE, "">>

\* validate_nota_venta: TRUE/FALSE and the error message.
validate_nota_venta(data) ==
    IF data.cliente_id = "" THEN <<FALSE, "Campo requerido: cliente_id">>
    ELSE IF data.direccion_facturacion_id = ""
        THEN <<FALSE, "Campo requerido: direccion_facturacion_id">>
    ELSE IF data.direccion_envio_id = ""
        THEN <<FALSE, "Campo requerido: direccion_envio_id">>
    ELSE IF data.productos = <<>> THEN <<FALSE, "Campo requerido: productos">>
    ELSE IF \E i \in 1..Len(data.productos) : IntOf(data.productos[i].cantidad) <= 0
        THEN <<FALSE, "Cantidad debe ser mayor a 0">>
    ELSE <<TRUE, "">>

\* ------------------------------------------------------------ responses
\* One external call (or fallible step) recorded in the invocation's trace.
Call(name, ok) == [call |-> name, ok |-> ok]

Called(r, name, ok) == [r EXCEPT !.calls = Append(@, Call(name, ok))]

\* return response(status, body): the invocation ends.  Its request, its call
\* trace, the note it built and the number of lines it wrote stay on record;
\* the other locals are dropped.
Done(r, status, body) ==
    [Idle EXCEPT !.op = r.op, !.pc = "done", !.data = r.data,
                 !.nota = r.nota, !.saved = r.saved,
                 !.calls = r.calls, !.status = status, !.body = body]

\* A function called on its own returns or raises: its call ends, and the
\* address it worked on, the counter it computed and its call trace stay on
\* record.
Returned(r) ==
    [Idle EXCEPT !.op = r.op, !.pc = "done", !.key = r.key,
                 !.veces_enviado = r.veces_enviado, !.calls = r.calls]

\* An exception leaves the operation: lambda_handler's except block is next.
Raised(r) == [r EXCEPT !.pc = "error_metric"]

\* ------------------------------------------------------------ Init
Init ==
    /\ clientes = EmptyMap
    /\ domicilios = EmptyMap
    /\ productos = EmptyMap
    /\ notas = EmptyMap
    /\ contenido = EmptyMap
    /\ bucket = EmptyMap
    /\ topic = <<>>
    /\ delivered = 0
    /\ clock = 1
    /\ req = [p \in Procs |-> Idle]


\* ------------------------------------------------------------ catalog
\* The catalog handlers take bodies their validators accept (rfc already
\* upper-case, correo lower-case, tipo upper-case); a rejected body returns
\* 400 before the table is touched.  A new id is a uuid4: any unused id.

create_cliente(id, data) ==
    /\ id \notin DOMAIN clientes
    /\ clientes' = PutItem(clientes, id, data)
    /\ UNCHANGED <<domicilios, productos, stores, clock, req>>

update_cliente(id, data) ==
    /\ id \in DOMAIN clientes
    /\ clientes' = PutItem(clientes, id, data)
    /\ UNCHANGED <<domicilios, productos, stores, clock, req>>

\* delete_cliente cascading to the customer's notes.
delete_cliente_cascada(id) ==
    /\ id \in DOMAIN clientes
    /\ clientes' = [x \in DOMAIN clientes \ {id} |-> clientes[x]]
    /\ notas' = [x \in {y \in DOMAIN notas : notas[y].cliente_id # id} |-> notas[x]]
    /\ UNCHANGED <<domicilios, productos, contenido, bucket, topic, delivered, clock, req>>

delete_cliente(id) ==
    /\ id \in DOMAIN clientes
    /\ clientes' = DeleteItem(clientes, id)
    /\ UNCHANGED <<domicilios, productos, stores, clock, req>>

create_domicilio(id, data) ==
    /\ id \notin DOMAIN domicilios
    /\ data.cliente_id \in DOMAIN clientes
    /\ domicilios' = PutItem(domicilios, id, data)
    /\ UNCHANGED <<clientes, productos, stores, clock, req>>

update_domicilio(id, data) ==
    /\ id \in DOMAIN domicilios
    /\ domicilios' = PutItem(domicilios, id, data)
    /\ UNCHANGED <<clientes, productos, stores, clock, req>>

delete_domicilio(id) ==
    /\ id \in DOMAIN domicilios
    /\ domicilios' = DeleteItem(domicilios, id)
    /\ UNCHANGED <<clientes, productos, stores, clock, req>>

create_producto(id, data) ==
    /\ id \notin DOMAIN productos
    /\ productos' = PutItem(productos, id, data)
    /\ UNCHANGED <<clientes, domicilios, stores, clock, req>>

update_producto(id, data) ==
    /\ id \in DOMAIN productos
    /\ productos' = PutItem(productos, id, data)
    /\ UNCHANGED <<clientes, domicilios, stores, clock, req>>

delete_producto(id) ==
    /\ id \in DOMAIN productos
    /\ productos' = DeleteItem(productos, id)
    /\ UNCHANGED <<clientes, domicilios, stores, clock, req>>

Catalogos ==
    \/ \E id \in ClienteIds, data \in ClienteInputs : create_cliente(id, data)
    \/ \E id \in ClienteIds, data \in ClienteInputs : update_cliente(id, data)
    \/ \E id \in ClienteIds : delete_cliente(id)
    \/ \E id \in DomicilioIds, data \in DomicilioInputs : create_domicilio(id, data)
    \/ \E id \in DomicilioIds, data \in DomicilioInputs : update_domicilio(id, data)
    \/ \E id \in DomicilioIds : delete_domicilio(id)
    \/ \E id \in ProductoIds, data \in ProductoInputs : create_producto(id, data)
    \/ \E id \in ProductoIds, data \in ProductoInputs : update_producto(id, data)
    \/ \E id \in ProductoIds : delete_producto(id)


\* ------------------------------------------------------------ create-note
\* f"${float(x):.2f}" of an amount in half-cents: the amount in cents.  An odd
\* number of half-cents (a third decimal 5) is printed by the binary float as
\* one of the two neighbouring cents; no modelled price produces one.
Fmt2(halfcents) == halfcents \div 2

\* generar_pdf: the document's content (layout and styling carry no data).
generar_pdf(nota, cliente, contenidos) ==
    [cliente |-> cliente,
     folio |-> nota.folio,
     filas |-> [i \in 1..Len(contenidos) |->
                   [cantidad |-> contenidos[i].cantidad,
                    producto_nombre |-> contenidos[i].producto_nombre,
                    precio_unitario |-> contenidos[i].precio_unitario,
                    importe |-> Fmt2(contenidos[i].importe)]],
     total |-> Fmt2(nota.total)]

\* Importe without the quantity: the unit price taken as the line amount.
ImporteSinCantidad(cantidad, precio_unitario) == precio_unitario

\* importe = cantidad * precio_unitario (Decimal, exact).
Importe(cantidad, precio_unitario) == cantidad * precio_unitario

\* The line draft appended to contenidos for one request entry.
Contenido(item, producto) ==
    [producto_id |-> item.producto_id,
     producto_nombre |-> producto.nombre,
     cantidad |-> item.cantidad,
     precio_unitario |-> producto.precio_base,
     importe |-> Importe(item.cantidad, producto.precio_base)]

\* folio = f"NV-{now:%Y%m%d}-{nota_id[:8].upper()}"
Folio(t, nota_id) == <<t, nota_id.hi>>

\* The first 8 characters of a line's uuid4 are read nowhere.
ContenidoFrag == "00000000"

\* A line keyed by its note and product instead of a fresh uuid.
ContenidoIdPorProducto(r) ==
    [hi |-> r.contenidos[r.saved + 1].producto_id, lo |-> r.nota.id.lo]

\* contenido_id = str(uuid.uuid4())
ContenidoId(r) == Uuid4(ContenidoFrag)

\* The record written to ContenidoNotasVenta for one line draft.
ContenidoItem(id, nota_id, c) ==
    [id |-> id, nota_id |-> nota_id, producto_id |-> c.producto_id,
     cantidad |-> c.cantidad, precio_unitario |-> c.precio_unitario,
     importe |-> c.importe]

\* key = f"{rfc_cliente}/{folio}.pdf"
S3Key(rfc, folio) == <<rfc, folio>>

\* A counter that grows by two on a re-send.
VecesEnviadoMasDos(found, key) ==
    IF found THEN bucket[key].metadata.veces_enviado + 2 ELSE 1

\* veces_enviado of subir_pdf_s3: 1, or the stored counter plus one when
\* head_object answered and the metadata has a 'veces-enviado' entry.
VecesEnviado(found, key) ==
    IF found /\ "veces_enviado" \in DOMAIN bucket[key].metadata
    THEN bucket[key].metadata.veces_enviado + 1
    ELSE 1

\* The metadata subir_pdf_s3 attaches to the object.
Metadata(t, veces) ==
    [hora_envio |-> t, nota_descargada |-> "false", veces_enviado |-> veces]

\* message_data of publicar_evento_notificacion, as the JSON text published
\* (its 'timestamp' entry is read by no subscriber and is left out).
MessageData(email, folio, rfc, url) ==
    [json |-> TRUE,
     data |-> [email |-> email, folio |-> folio, rfc |-> rfc, api_gateway_url |-> url]]

\* POST /notas: validate_nota_venta, 400 on failure.
create_nota_venta(p, data) ==
    /\ req[p].pc \in {"idle", "done"}
    /\ Cardinality(DOMAIN notas) < MaxNotas
    /\ LET r == [Idle EXCEPT !.op = "create", !.data = data]
           v == validate_nota_venta(data)
       IN  req' = [req EXCEPT ![p] =
                IF v[1] THEN [r EXCEPT !.pc = "get_cliente"]
                ELSE Done(r, 400, [error |-> v[2]])]
    /\ UNCHANGED <<catalog, stores, clock>>

\* cliente_table.get_item; 404 when absent.
GetCliente(p, ok) ==
    /\ req[p].op = "create" /\ req[p].pc = "get_cliente"
    /\ LET r == Called(req[p], "clientes.get_item", ok)
           id == r.data.cliente_id
       IN  req' = [req EXCEPT ![p] =
                IF ~ok THEN Raised(r)
                ELSE IF id \notin DOMAIN clientes
                    THEN Done(r, 404, [error |-> "Cliente no encontrado"])
                ELSE [r EXCEPT !.cliente = clientes[id], !.pc = "get_dir_fact"]]
    /\ UNCHANGED <<catalog, stores, clock>>

\* dir_fact = domicilio_table.get_item(...)
GetDirFact(p, ok) ==
    /\ req[p].op = "create" /\ req[p].pc = "get_dir_fact"
    /\ LET r == Called(req[p], "domicilios.get_item", ok)
           id == r.data.direccion_facturacion_id
       IN  req' = [req EXCEPT ![p] =
                IF ~ok THEN Raised(r)
                ELSE [r EXCEPT !.dir_fact = (id \in DOMAIN domicilios),
                               !.pc = "get_dir_envio"]]
    /\ UNCHANGED <<catalog, stores, clock>>

\* GetDirEnvio saving the note's header as soon as the addresses are resolved,
\* before the products are.
GetDirEnvioGuarda(p, ok) ==
    /\ req[p].op = "create" /\ req[p].pc = "get_dir_envio"
    /\ LET r == Called(req[p], "domicilios.get_item", ok)
           id == r.data.direccion_envio_id
           pasa == ok /\ r.dir_fact /\ id \in DOMAIN domicilios
           nota == [r.nota EXCEPT !.id = Uuid4("A1B2C3D4"),
                                  !.cliente_id = r.data.cliente_id]
       IN  /\ req' = [req EXCEPT ![p] =
                IF ~ok THEN Raised(r)
                ELSE IF ~r.dir_fact
                    THEN Done(r, 404, [error |-> "Direccion de facturacion no encontrada"])
                ELSE IF id \notin DOMAIN domicilios
                    THEN Done(r, 404, [error |-> "Direccion de envio no encontrada"])
                ELSE [Called(r, "notas.put_item", TRUE) EXCEPT
                         !.dir_envio = TRUE, !.pc = "get_producto"]]
           /\ notas' = IF pasa THEN PutItem(notas, nota.id, nota) ELSE notas
    /\ UNCHANGED <<catalog, contenido, bucket, topic, delivered, clock>>

\* GetDirEnvio with its two checks swapped: the shipping address first.
GetDirEnvioPrimero(p, ok) ==
    /\ req[p].op = "create" /\ req[p].pc = "get_dir_envio"
    /\ LET r == Called(req[p], "domicilios.get_item", ok)
           id == r.data.direccion_envio_id
       IN  req' = [req EXCEPT ![p] =
                IF ~ok THEN Raised(r)
                ELSE IF id \notin DOMAIN domicilios
                    THEN Done(r, 404, [error |-> "Direccion de envio no encontrada"])
                ELSE IF ~r.dir_fact
                    THEN Done(r, 404, [error |-> "Direccion de facturacion no encontrada"])
                ELSE [r EXCEPT !.dir_envio = TRUE, !.pc = "get_producto"]]
    /\ UNCHANGED <<catalog, stores, clock>>

\* dir_envio = domicilio_table.get_item(...), then both 404 checks.
GetDirEnvio(p, ok) ==
    /\ req[p].op = "create" /\ req[p].pc = "get_dir_envio"
    /\ LET r == Called(req[p], "domicilios.get_item", ok)
           id == r.data.direccion_envio_id
       IN  req' = [req EXCEPT ![p] =
                IF ~ok THEN Raised(r)
                ELSE IF ~r.dir_fact
                    THEN Done(r, 404, [error |-> "Direccion de facturacion no encontrada"])
                ELSE IF id \notin DOMAIN domicilios
                    THEN Done(r, 404, [error |-> "Direccion de envio no encontrada"])
                ELSE [r EXCEPT !.dir_envio = TRUE, !.pc = "get_producto"]]
    /\ UNCHANGED <<catalog, stores, clock>>

\* One turn of the product loop: get_item, 404 when absent, else the line
\* draft is appended and added to the total.
GetProducto(p, ok) ==
    /\ req[p].op = "create" /\ req[p].pc = "get_producto"
    /\ LET r == Called(req[p], "productos.get_item", ok)
           i == Len(r.contenidos) + 1
           item == r.data.productos[i]
       IN  req' = [req EXCEPT ![p] =
                IF ~ok THEN Raised(r)
                ELSE IF item.producto_id \notin DOMAIN productos
                    THEN Done(r, 404, [error |-> "Producto no encontrado",
                                       producto_id |-> item.producto_id])
                ELSE LET c == Contenido(item, productos[item.producto_id])
                     IN  [r EXCEPT !.contenidos = Append(@, c),
                                   !.total = @ + c.importe,
                                   !.pc = IF i = Len(r.data.productos)
                                          THEN "nueva_nota" ELSE "get_producto"]]
    /\ UNCHANGED <<catalog, stores, clock>>

\* nota_id = str(uuid.uuid4()) and the folio, dated by a first datetime.now().
NuevaNota(p, frag) ==
    /\ req[p].op = "create" /\ req[p].pc = "nueva_nota"
    /\ LET nota_id == Uuid4(frag)
       IN  req' = [req EXCEPT ![p].nota.id = nota_id,
                              ![p].nota.folio = Folio(Now, nota_id),
                              ![p].pc = "put_nota"]
    /\ UNCHANGED <<catalog, stores, clock>>

\* PutNota that builds the record and leaves its put_item for after the lines.
PutNotaTardia(p, ok) ==
    /\ req[p].op = "create" /\ req[p].pc = "put_nota"
    /\ LET nota == [id |-> req[p].nota.id,
                    folio |-> req[p].nota.folio,
                    cliente_id |-> req[p].data.cliente_id,
                    direccion_facturacion_id |-> req[p].data.direccion_facturacion_id,
                    direccion_envio_id |-> req[p].data.direccion_envio_id,
                    total |-> req[p].total,
                    created_at |-> Now]
           r == [Called(req[p], "notas.put_item", ok) EXCEPT !.nota = nota]
       IN  req' = [req EXCEPT ![p] =
                IF ok THEN [r EXCEPT !.pc = "put_contenido"] ELSE Raised(r)]
    /\ UNCHANGED <<catalog, stores, clock>>

\* The nota record, created_at from a second datetime.now(), and
\* notas_table.put_item.
PutNota(p, ok) ==
    /\ req[p].op = "create" /\ req[p].pc = "put_nota"
    /\ LET nota == [id |-> req[p].nota.id,
                    folio |-> req[p].nota.folio,
                    cliente_id |-> req[p].data.cliente_id,
                    direccion_facturacion_id |-> req[p].data.direccion_facturacion_id,
                    direccion_envio_id |-> req[p].data.direccion_envio_id,
                    total |-> req[p].total,
                    created_at |-> Now]
           r == [Called(req[p], "notas.put_item", ok) EXCEPT !.nota = nota]
       IN  /\ req' = [req EXCEPT ![p] =
                IF ok THEN [r EXCEPT !.pc = "put_contenido"] ELSE Raised(r)]
           /\ notas' = IF ok THEN PutItem(notas, nota.id, nota) ELSE notas
    /\ UNCHANGED <<catalog, contenido, bucket, topic, delivered, clock>>

\* PutContenido with a compensation: a failed line write deletes the note and
\* the lines written so far.
PutContenidoCompensa(p, ok) ==
    /\ req[p].op = "create" /\ req[p].pc = "put_contenido"
    /\ LET r == Called(req[p], "contenido.put_item", ok)
           k == r.saved + 1
           id == Uuid4("00000000")
           item == [id |-> id, nota_id |-> r.nota.id,
                    producto_id |-> r.contenidos[k].producto_id,
                    cantidad |-> r.contenidos[k].cantidad,
                    precio_unitario |-> r.contenidos[k].precio_unitario,
                    importe |-> r.contenidos[k].importe]
       IN  /\ req' = [req EXCEPT ![p] =
                IF ~ok THEN Raised(r)
                ELSE [r EXCEPT !.saved = k,
                               !.pc = IF k = Len(r.contenidos)
                                      THEN "generar_pdf" ELSE "put_contenido"]]
           /\ contenido' =
                IF ok THEN PutItem(contenido, id, item)
                ELSE [x \in {y \in DOMAIN contenido : contenido[y].nota_id # r.nota.id}
                        |-> contenido[x]]
           /\ notas' = IF ok THEN notas
                       ELSE [x \in DOMAIN notas \ {r.nota.id} |-> notas[x]]
    /\ UNCHANGED <<catalog, bucket, topic, delivered, clock>>

\* A line loop that runs over the drafts from the last one to the first.
PutContenidoInverso(p, ok) ==
    /\ req[p].op = "create" /\ req[p].pc = "put_contenido"
    /\ LET r == Called(req[p], "contenido.put_item", ok)
           k == Len(r.contenidos) - r.saved
           id == Uuid4("00000000")
           item == ContenidoItem(id, r.nota.id, r.contenidos[k])
       IN  /\ req' = [req EXCEPT ![p] =
                IF ~ok THEN Raised(r)
                ELSE [r EXCEPT !.saved = @ + 1,
                               !.pc = IF r.saved + 1 = Len(r.contenidos)
                                      THEN "generar_pdf" ELSE "put_contenido"]]
           /\ contenido' = IF ok THEN PutItem(contenido, id, item) ELSE contenido
    /\ UNCHANGED <<catalog, notas, bucket, topic, delivered, clock>>

\* One turn of the line loop: a fresh id and contenido_table.put_item.
PutContenido(p, ok) ==
    /\ req[p].op = "create" /\ req[p].pc = "put_contenido"
    /\ LET r == Called(req[p], "contenido.put_item", ok)
           k == r.saved + 1
           id == ContenidoId(r)
           item == ContenidoItem(id, r.nota.id, r.contenidos[k])
       IN  /\ req' = [req EXCEPT ![p] =
                IF ~ok THEN Raised(r)
                ELSE [r EXCEPT !.saved = k,
                               !.pc = IF k = Len(r.contenidos)
                                      THEN "generar_pdf" ELSE "put_contenido"]]
           /\ contenido' = IF ok THEN PutItem(contenido, id, item) ELSE contenido
    /\ UNCHANGED <<catalog, notas, bucket, topic, delivered, clock>>

\* GenerarPdf followed by the publish, the upload left out.
GenerarPdfSinSubir(p, ok) ==
    /\ req[p].op = "create" /\ req[p].pc = "generar_pdf"
    /\ LET r == Called(req[p], "generar_pdf", ok)
       IN  req' = [req EXCEPT ![p] =
                IF ok THEN [r EXCEPT !.key = <<r.cliente.rfc, r.nota.folio>>,
                                     !.pc = "publish"]
                ELSE Raised(r)]
    /\ UNCHANGED <<catalog, stores, clock>>

\* pdf_buffer = generar_pdf(nota, cliente, contenidos): the renderer may raise.
GenerarPdf(p, ok) ==
    /\ req[p].op = "create" /\ req[p].pc = "generar_pdf"
    /\ LET r == Called(req[p], "generar_pdf", ok)
       IN  req' = [req EXCEPT ![p] =
                IF ok THEN [r EXCEPT !.pdf = generar_pdf(r.nota, r.cliente, r.contenidos),
                                     !.key = S3Key(r.cliente.rfc, r.nota.folio),
                                     !.pc = "s3_head"]
                ELSE Raised(r)]
    /\ UNCHANGED <<catalog, stores, clock>>

\* S3Head without its try/except: a store error of head_object leaves the
\* function.
S3HeadPropaga(p, ok) ==
    /\ req[p].pc = "s3_head"
    /\ LET found == ok /\ req[p].key \in DOMAIN bucket
           r == Called(req[p], "s3.head_object", found)
       IN  req' = [req EXCEPT ![p] =
                IF ~ok THEN (IF r.op = "create" THEN Raised(r) ELSE Returned(r))
                ELSE [r EXCEPT !.veces_enviado = VecesEnviado(found, r.key),
                               !.pc = "s3_put"]]
    /\ UNCHANGED <<catalog, stores, clock>>

\* subir_pdf_s3, first half: head_object inside try/except-pass.  head_object
\* raises when the object is absent, and may raise on any store error.
S3Head(p, ok) ==
    /\ req[p].pc = "s3_head"
    /\ LET found == ok /\ req[p].key \in DOMAIN bucket
           r == Called(req[p], "s3.head_object", found)
       IN  req' = [req EXCEPT ![p] =
                [r EXCEPT !.veces_enviado = VecesEnviado(found, r.key),
                          !.pc = "s3_put"]]
    /\ UNCHANGED <<catalog, stores, clock>>

\* subir_pdf_s3, second half: the metadata and put_object, then `return key`
\* to create_nota_venta (its next step is the publish) or to a direct caller.
S3Put(p, ok) ==
    /\ req[p].pc = "s3_put"
    /\ LET r == Called(req[p], "s3.put_object", ok)
           obj == [body |-> r.pdf, metadata |-> Metadata(Now, r.veces_enviado)]
       IN  /\ req' = [req EXCEPT ![p] =
                IF r.op # "create" THEN Returned(r)
                ELSE IF ok THEN [r EXCEPT !.pc = "publish"] ELSE Raised(r)]
           /\ bucket' = IF ok THEN PutItem(bucket, r.key, obj) ELSE bucket
    /\ UNCHANGED <<catalog, notas, contenido, topic, delivered, clock>>

\* Publish without its try/except: a failed sns.publish propagates.
PublishPropaga(p, ok) ==
    /\ req[p].op = "create" /\ req[p].pc = "publish"
    /\ LET r == Called(req[p], "sns.publish", ok)
           m == [json |-> TRUE,
                 data |-> [email |-> r.cliente.correo, folio |-> r.nota.folio,
                           rfc |-> r.cliente.rfc, api_gateway_url |-> "https://api/dev"]]
       IN  /\ req' = [req EXCEPT ![p] =
                IF ok THEN [r EXCEPT !.publicado = TRUE, !.pc = "metrics"]
                ELSE Raised(r)]
           /\ topic' = IF ok THEN Append(topic, m) ELSE topic
    /\ UNCHANGED <<catalog, notas, contenido, bucket, delivered, clock>>

\* A publish that is tried a second time when it fails.
PublishReintenta(p, ok) ==
    /\ req[p].op = "create" /\ req[p].pc = "publish"
    /\ LET r1 == Called(req[p], "sns.publish", ok)
           r == IF ok THEN r1 ELSE Called(r1, "sns.publish", TRUE)
           m == MessageData(r.cliente.correo, r.nota.folio, r.cliente.rfc,
                            ApiGatewayUrl)
       IN  /\ req' = [req EXCEPT ![p] = [r EXCEPT !.publicado = TRUE, !.pc = "metrics"]]
           /\ topic' = Append(topic, m)
    /\ UNCHANGED <<catalog, notas, contenido, bucket, delivered, clock>>

\* publicar_evento_notificacion: sns.publish inside try/except, True or False.
Publish(p, ok) ==
    /\ req[p].op = "create" /\ req[p].pc = "publish"
    /\ LET r == Called(req[p], "sns.publish", ok)
           m == MessageData(r.cliente.correo, r.nota.folio, r.cliente.rfc,
                            ApiGatewayUrl)
       IN  /\ req' = [req EXCEPT ![p] = [r EXCEPT !.publicado = ok, !.pc = "metrics"]]
           /\ topic' = IF ok THEN Append(topic, m) ELSE topic
    /\ UNCHANGED <<catalog, notas, contenido, bucket, delivered, clock>>

\* Metrics without its try/except: a failed put_metric_data propagates.
MetricsPropaga(p, ok) ==
    /\ req[p].op = "create" /\ req[p].pc = "metrics"
    /\ LET r == Called(req[p], "cloudwatch.put_metric_data", ok)
       IN  req' = [req EXCEPT ![p] =
                IF ~ok THEN Raised(r)
                ELSE Done(r, 201, [nota |-> r.nota, contenidos |-> r.contenidos,
                                   s3_key |-> r.key,
                                   message |-> "Nota de venta creada y evento de notificacion publicado"])]
    /\ UNCHANGED <<catalog, stores, clock>>

\* cloudwatch.put_metric_data inside try/except, then the 201 response.
Metrics(p, ok) ==
    /\ req[p].op = "create" /\ req[p].pc = "metrics"
    /\ LET r == Called(req[p], "cloudwatch.put_metric_data", ok)
       IN  req' = [req EXCEPT ![p] =
                Done(r, 201, [nota |-> r.nota, contenidos |-> r.contenidos,
                              s3_key |-> r.key,
                              message |-> "Nota de venta creada y evento de notificacion publicado"])]
    /\ UNCHANGED <<catalog, stores, clock>>

\* lambda_handler's except block: the error metric inside try/except, then 500.
ErrorMetric(p, ok) ==
    /\ req[p].pc = "error_metric"
    /\ LET r == Called(req[p], "cloudwatch.put_metric_data", ok)
       IN  req' = [req EXCEPT ![p] = Done(r, 500, [error |-> "Error interno"])]
    /\ UNCHANGED <<catalog, stores, clock>>

\* The steps of a create-note invocation after its validation.
Saga(p) ==
    \/ \E ok \in BOOLEAN : GetCliente(p, ok)
    \/ \E ok \in BOOLEAN : GetDirFact(p, ok)
    \/ \E ok \in BOOLEAN : GetDirEnvio(p, ok)
    \/ \E ok \in BOOLEAN : GetProducto(p, ok)
    \/ \E frag \in Frags : NuevaNota(p, frag)
    \/ \E ok \in BOOLEAN : PutNota(p, ok)
    \/ \E ok \in BOOLEAN : PutContenido(p, ok)
    \/ \E ok \in BOOLEAN : GenerarPdf(p, ok)
    \/ \E ok \in BOOLEAN : S3Head(p, ok)
    \/ \E ok \in BOOLEAN : S3Put(p, ok)
    \/ \E ok \in BOOLEAN : Publish(p, ok)
    \/ \E ok \in BOOLEAN : Metrics(p, ok)
    \/ \E ok \in BOOLEAN : ErrorMetric(p, ok)

\* ------------------------------------------------------------ get-note
\* The lines of a note, as the scan with FilterExpression nota_id = :nota_id
\* returns them (in no particular order).
LineasDe(nota_id) == {id \in DOMAIN contenido : contenido[id].nota_id = nota_id}

\* A get-note that answers 404 when a record the Note refers to is absent.
get_nota_venta_404(p, nota_id, ok) ==
    /\ req[p].pc \in {"idle", "done"}
    /\ LET r == Called([Idle EXCEPT !.op = "get", !.nota.id = nota_id],
                       "get_nota_venta", ok)
       IN  req' = [req EXCEPT ![p] =
                IF ~ok THEN Raised(r)
                ELSE IF nota_id \notin DOMAIN notas
                    THEN Done(r, 404, [error |-> "Nota de venta no encontrada"])
                ELSE LET nota == notas[nota_id]
                         lineas == LineasDe(nota_id)
                     IN  IF /\ nota.cliente_id \in DOMAIN clientes
                            /\ nota.direccion_facturacion_id \in DOMAIN domicilios
                            /\ nota.direccion_envio_id \in DOMAIN domicilios
                            /\ \A l \in lineas : contenido[l].producto_id \in DOMAIN productos
                         THEN Done(r, 200,
                                [nota |-> nota,
                                 cliente |-> clientes[nota.cliente_id],
                                 direccion_facturacion |-> domicilios[nota.direccion_facturacion_id],
                                 direccion_envio |-> domicilios[nota.direccion_envio_id],
                                 contenidos |->
                                    {[id |-> l,
                                      producto |-> productos[contenido[l].producto_id],
                                      cantidad |-> contenido[l].cantidad,
                                      precio_unitario |-> contenido[l].precio_unitario,
                                      importe |-> contenido[l].importe] : l \in lineas}])
                         ELSE Done(r, 404, [error |-> "Nota de venta no encontrada"])]
    /\ UNCHANGED <<catalog, stores, clock>>

\* GET /notas/{id}: only reads.  ['Item'] of an absent customer, address or
\* product raises KeyError; any read may raise.
get_nota_venta(p, nota_id, ok) ==
    /\ req[p].pc \in {"idle", "done"}
    /\ LET r == Called([Idle EXCEPT !.op = "get", !.nota.id = nota_id],
                       "get_nota_venta", ok)
       IN  req' = [req EXCEPT ![p] =
                IF ~ok THEN Raised(r)
                ELSE IF nota_id \notin DOMAIN notas
                    THEN Done(r, 404, [error |-> "Nota de venta no encontrada"])
                ELSE LET nota == notas[nota_id]
                         lineas == LineasDe(nota_id)
                     IN  IF /\ nota.cliente_id \in DOMAIN clientes
                            /\ nota.direccion_facturacion_id \in DOMAIN domicilios
                            /\ nota.direccion_envio_id \in DOMAIN domicilios
                            /\ \A l \in lineas : contenido[l].producto_id \in DOMAIN productos
                         THEN Done(r, 200,
                                [nota |-> nota,
                                 cliente |-> clientes[nota.cliente_id],
                                 direccion_facturacion |-> domicilios[nota.direccion_facturacion_id],
                                 direccion_envio |-> domicilios[nota.direccion_envio_id],
                                 contenidos |->
                                    {[id |-> l,
                                      producto |-> productos[contenido[l].producto_id],
                                      cantidad |-> contenido[l].cantidad,
                                      precio_unitario |-> contenido[l].precio_unitario,
                                      importe |-> contenido[l].importe] : l \in lineas}])
                         ELSE Raised(r)]
    /\ UNCHANGED <<catalog, stores, clock>>

\* ------------------------------------------------------------ download
\* ExpiresIn of the presigned URL, in seconds.
ExpiresIn == 900

\* The download route without its parameter check.
download_nota_pdf_sin_parametros(p, rfc, folio) ==
    /\ req[p].pc \in {"idle", "done"}
    /\ req' = [req EXCEPT ![p] =
            [Idle EXCEPT !.op = "download", !.key = <<rfc, folio>>, !.pc = "dl_head"]]
    /\ UNCHANGED <<catalog, stores, clock>>

\* GET /notas/download?rfc=&folio=: 400 when a parameter is missing.
download_nota_pdf(p, rfc, folio) ==
    /\ req[p].pc \in {"idle", "done"}
    /\ LET r == [Idle EXCEPT !.op = "download", !.key = S3Key(rfc, folio)]
       IN  req' = [req EXCEPT ![p] =
                IF rfc = "" \/ folio[2] = ""
                THEN Done(r, 400, [error |-> "Parametros rfc y folio son requeridos"])
                ELSE [r EXCEPT !.pc = "dl_head"]]
    /\ UNCHANGED <<catalog, stores, clock>>

\* A head_object step that flips the flag it read instead of setting it.
DlHeadAlterna(p, ok) ==
    /\ req[p].op = "download" /\ req[p].pc = "dl_head"
    /\ LET found == ok /\ req[p].key \in DOMAIN bucket
           r == Called(req[p], "s3.head_object", found)
           md == IF found THEN bucket[r.key].metadata ELSE NoMetadata
       IN  req' = [req EXCEPT ![p] =
                IF found
                THEN [r EXCEPT !.metadata = [md EXCEPT !.nota_descargada =
                                   IF md.nota_descargada = "true" THEN "false" ELSE "true"],
                               !.pc = "dl_get"]
                ELSE Done(r, 404, [error |-> "PDF no encontrado"])]
    /\ UNCHANGED <<catalog, stores, clock>>

\* head_object and current_metadata['nota-descargada'] = 'true'; every
\* exception of the function ends in the 404 of its except block.
DlHead(p, ok) ==
    /\ req[p].op = "download" /\ req[p].pc = "dl_head"
    /\ LET found == ok /\ req[p].key \in DOMAIN bucket
           r == Called(req[p], "s3.head_object", found)
       IN  req' = [req EXCEPT ![p] =
                IF found
                THEN [r EXCEPT !.metadata = [bucket[r.key].metadata EXCEPT
                                                !.nota_descargada = "true"],
                               !.pc = "dl_get"]
                ELSE Done(r, 404, [error |-> "PDF no encontrado"])]
    /\ UNCHANGED <<catalog, stores, clock>>

\* get_object and obj['Body'].read()
DlGet(p, ok) ==
    /\ req[p].op = "download" /\ req[p].pc = "dl_get"
    /\ LET found == ok /\ req[p].key \in DOMAIN bucket
           r == Called(req[p], "s3.get_object", found)
       IN  req' = [req EXCEPT ![p] =
                IF found
                THEN [r EXCEPT !.pdf = bucket[r.key].body, !.pc = "dl_put"]
                ELSE Done(r, 404, [error |-> "PDF no encontrado"])]
    /\ UNCHANGED <<catalog, stores, clock>>

\* A download's put_object that counts as one more send.
DlPutCuenta(p, ok) ==
    /\ req[p].op = "download" /\ req[p].pc = "dl_put"
    /\ LET r == Called(req[p], "s3.put_object", ok)
           obj == [body |-> r.pdf,
                   metadata |-> [r.metadata EXCEPT !.veces_enviado = @ + 1]]
       IN  /\ req' = [req EXCEPT ![p] =
                IF ok
                THEN Done(r, 302, [Location |-> [key |-> r.key, expires |-> ExpiresIn]])
                ELSE Done(r, 404, [error |-> "PDF no encontrado"])]
           /\ bucket' = IF ok THEN PutItem(bucket, r.key, obj) ELSE bucket
    /\ UNCHANGED <<catalog, notas, contenido, topic, delivered, clock>>

\* A download that proxies the document: 200 with the bytes it read.
DlPutBytes(p, ok) ==
    /\ req[p].op = "download" /\ req[p].pc = "dl_put"
    /\ LET r == Called(req[p], "s3.put_object", ok)
           obj == [body |-> r.pdf, metadata |-> r.metadata]
       IN  /\ req' = [req EXCEPT ![p] =
                IF ok
                THEN Done(r, 200, [pdf |-> r.pdf])
                ELSE Done(r, 404, [error |-> "PDF no encontrado"])]
           /\ bucket' = IF ok THEN PutItem(bucket, r.key, obj) ELSE bucket
    /\ UNCHANGED <<catalog, notas, contenido, topic, delivered, clock>>

\* put_object with the content read and the updated metadata, then the
\* presigned URL and the 302 redirect to it.
DlPut(p, ok) ==
    /\ req[p].op = "download" /\ req[p].pc = "dl_put"
    /\ LET r == Called(req[p], "s3.put_object", ok)
           obj == [body |-> r.pdf, metadata |-> r.metadata]
       IN  /\ req' = [req EXCEPT ![p] =
                IF ok
                THEN Done(r, 302, [Location |-> [key |-> r.key, expires |-> ExpiresIn]])
                ELSE Done(r, 404, [error |-> "PDF no encontrado"])]
           /\ bucket' = IF ok THEN PutItem(bucket, r.key, obj) ELSE bucket
    /\ UNCHANGED <<catalog, notas, contenido, topic, delivered, clock>>

\* An address of the bucket at which nothing is ever stored.
OtherKey == <<"ETE201125XYZ", <<1, "FFFFFFFF">>>>

\* Query parameters of a download request: a stored address, an address that
\* is not stored, a request without rfc and one without folio.
DownloadInputs ==
    DOMAIN bucket \cup {OtherKey, <<"", <<1, "FFFFFFFF">>>>, <<"ETE201125XYZ", <<0, "">>>>}

\* Path parameter of a get-note request: a stored note or an unknown id.
GetInputs == DOMAIN notas \cup {[hi |-> "FFFFFFFF", lo |-> 0]}

\* Every notas-service operation, create-note with the bodies `inputs`.
NotasService(p, inputs) ==
    \/ \E data \in inputs : create_nota_venta(p, data)
    \/ Saga(p)
    \/ \E id \in GetInputs, ok \in BOOLEAN : get_nota_venta(p, id, ok)
    \/ \E k \in DownloadInputs : download_nota_pdf(p, k[1], k[2])
    \/ \E ok \in BOOLEAN : DlHead(p, ok)
    \/ \E ok \in BOOLEAN : DlGet(p, ok)
    \/ \E ok \in BOOLEAN : DlPut(p, ok)

\* ------------------------------------------------------------ notifications
\* notifications-service, invoked by SNS with one record: the next message of
\* the topic.  A message that is not JSON is skipped; a JSON message with
\* email, folio and rfc is forwarded by enviar_notificacion_sns as plain text
\* to the topic named by the same SNS_TOPIC_ARN variable.
DownloadUrl(url, rfc, folio) == [url |-> url, rfc |-> rfc, folio |-> folio]

\* A consumer that does not tell JSON from plain text: whatever it is handed
\* is forwarded.
NotificationsHandlerEco(ok) ==
    /\ delivered < Len(topic)
    /\ delivered' = delivered + 1
    /\ LET m == topic[delivered + 1]
       IN  topic' =
             IF m.data.email # "" /\ m.data.folio[2] # "" /\ m.data.rfc # "" /\ ok
             THEN Append(topic,
                    [json |-> FALSE,
                     data |-> [email |-> m.data.email, folio |-> m.data.folio,
                               rfc |-> m.data.rfc,
                               download_url |-> DownloadUrl(ApiGatewayUrl,
                                                            m.data.rfc, m.data.folio)]])
             ELSE topic
    /\ UNCHANGED <<catalog, notas, contenido, bucket, clock, req>>

NotificationsHandler(ok) ==
    /\ delivered < Len(topic)
    /\ delivered' = delivered + 1
    /\ LET m == topic[delivered + 1]
       IN  topic' =
             IF m.json /\ m.data.email # "" /\ m.data.folio[2] # "" /\ m.data.rfc # "" /\ ok
             THEN Append(topic,
                    [json |-> FALSE,
                     data |-> [email |-> m.data.email, folio |-> m.data.folio,
                               rfc |-> m.data.rfc,
                               download_url |-> DownloadUrl(m.data.api_gateway_url,
                                                            m.data.rfc, m.data.folio)]])
             ELSE topic
    /\ UNCHANGED <<catalog, notas, contenido, bucket, clock, req>>

\* ------------------------------------------------------------ consumer
\* notifications-service step by step.  A text handed to json.loads is not
\* JSON ("texto"), JSON that is not an object, such as null or 123
\* ("escalar"), or a JSON object ("objeto") with its entries; an entry that
\* is absent reads as None with .get and is written "" here.
MaxRecords == 2

NoCampos == [email |-> "", folio |-> <<0, "">>, rfc |-> "", api_gateway_url |-> ""]

Completo ==
    [email |-> "test@example.com", folio |-> <<1, "A1B2C3D4">>,
     rfc |-> "ETE201125XYZ", api_gateway_url |-> ApiGatewayUrl]

Campos == {Completo, [Completo EXCEPT !.email = ""], [Completo EXCEPT !.folio = <<0, "">>]}

Textos ==
    {[tipo |-> "texto", data |-> NoCampos], [tipo |-> "escalar", data |-> NoCampos]}
        \cup {[tipo |-> "objeto", data |-> d] : d \in Campos}

\* Records of an SNS event; EventSource is 'aws:sns' or something else.
Records == [EventSource : {"aws:sns", "aws:s3"}, Message : Textos]

NoEvent == [Records |-> <<>>, body |-> [tipo |-> "ausente", data |-> NoCampos],
            data |-> NoCampos]

SnsEvents == {[NoEvent EXCEPT !.Records = rs] : rs \in SeqsUpTo(Records, MaxRecords) \ {<<>>}}

\* Direct events: the fields in the event itself, or in its 'body' text.
HttpEvents ==
    {[NoEvent EXCEPT !.data = d] : d \in Campos}
        \cup {[NoEvent EXCEPT !.body = t] : t \in Textos}

\* not all([email, folio, rfc])
Falta(d) == d.email = "" \/ d.folio[2] = "" \/ d.rfc = ""

\* The outcomes of sns.publish that enviar_notificacion_sns tells apart.
Outcomes == {"ok", "InvalidParameter", "NotFound", "Exception"}

StatusCode(outcome) ==
    CASE outcome = "ok" -> 200
      [] outcome = "InvalidParameter" -> 400
      [] outcome = "NotFound" -> 404
      [] OTHER -> 500

\* The metrics enviar_notificacion_sns sends after sns.publish, in order.
MetricasDe(outcome) ==
    CASE outcome = "ok" ->
            <<"NotificacionesEnviadas", "NotificacionesExitosas",
              "TiempoEnvioNotificacion", "HTTP_2xx">>
      [] outcome \in {"InvalidParameter", "NotFound"} ->
            <<"NotificacionesEnviadas", "NotificacionesFallidas", "HTTP_4xx">>
      [] OTHER ->
            <<"NotificacionesEnviadas", "NotificacionesFallidas", "HTTP_5xx">>

\* The message enviar_notificacion_sns publishes: plain text.
Notificacion(d) ==
    [json |-> FALSE,
     data |-> [email |-> d.email, folio |-> d.folio, rfc |-> d.rfc,
               download_url |-> DownloadUrl(d.api_gateway_url, d.rfc, d.folio)]]

\* An invocation of the consumer: the event, the record the loop is at, the
\* fields being notified, the outcome of the last publish ('resultado'), the
\* metrics still to send and what follows them
\* ("record": the next record, "return": the response with 'status').
IdleConsumer ==
    [op |-> "none", pc |-> "idle", event |-> NoEvent, i |-> 0, campos |-> NoCampos,
     resultado |-> "", metricas |-> <<>>, sigue |-> "", calls |-> <<>>, status |-> 0]

Return(r, status) ==
    [IdleConsumer EXCEPT !.op = r.op, !.pc = "done", !.event = r.event,
                         !.resultado = r.resultado,
                         !.calls = r.calls, !.status = status]

\* except Exception of lambda_handler: two metrics, then 500.
RaisedConsumer(r) ==
    [r EXCEPT !.pc = "metrica", !.sigue = "return", !.status = 500,
              !.metricas = <<"ErroresNotificationsService", "HTTP_5xx">>]

\* lambda_handler is invoked: the kind of invocation is decided.  (An
\* invocation starts while the topic has room for what it may publish.)
lambda_handler(p, event) ==
    /\ req[p].pc \in {"idle", "done"}
    /\ Len(topic) + Max({1, Len(event.Records)}) <= MaxEnvios
    /\ req' = [req EXCEPT ![p] =
            IF event.Records # <<>>
            THEN [IdleConsumer EXCEPT !.op = "sns", !.pc = "record",
                                      !.event = event, !.i = 1]
            ELSE [IdleConsumer EXCEPT !.op = "http", !.pc = "directo",
                                      !.event = event]]
    /\ UNCHANGED <<catalog, stores, clock>>

\* One turn of the loop over event['Records'], up to the publish or the
\* first metric of the record; after the last record, the 200 response.
Record(p) ==
    /\ req[p].op = "sns" /\ req[p].pc = "record"
    /\ LET r == req[p]
       IN  req' = [req EXCEPT ![p] =
                IF r.i > Len(r.event.Records) THEN Return(r, 200)
                ELSE LET record == r.event.Records[r.i]
                         sns_message == record.Message
                     IN  IF record.EventSource # "aws:sns"
                             THEN [r EXCEPT !.i = @ + 1]
                         ELSE IF sns_message.tipo = "texto"
                             THEN [r EXCEPT !.i = @ + 1, !.pc = "metrica",
                                            !.sigue = "record",
                                            !.metricas = <<"MensajesNoJSON">>]
                         ELSE IF sns_message.tipo = "escalar"
                             THEN RaisedConsumer(r)
                         ELSE IF Falta(sns_message.data)
                             THEN [r EXCEPT !.i = @ + 1, !.pc = "metrica",
                                            !.sigue = "record",
                                            !.metricas = <<"MensajesInvalidos", "HTTP_4xx">>]
                         ELSE [r EXCEPT !.i = @ + 1, !.pc = "publish",
                                        !.sigue = "record",
                                        !.campos = sns_message.data]]
    /\ UNCHANGED <<catalog, stores, clock>>

\* The direct invocation up to the publish or the first metric: body is the
\* parsed 'body' text, or the event when there is none or it is not JSON.
Directo(p) ==
    /\ req[p].op = "http" /\ req[p].pc = "directo"
    /\ LET r == req[p]
           texto == r.event.body
           body == IF texto.tipo = "objeto" THEN texto.data ELSE r.event.data
       IN  req' = [req EXCEPT ![p] =
                IF texto.tipo = "escalar" THEN RaisedConsumer(r)
                ELSE IF Falta(body)
                    THEN [r EXCEPT !.pc = "metrica", !.sigue = "return", !.status = 400,
                                   !.metricas = <<"RequestsInvalidos", "HTTP_4xx">>]
                ELSE [r EXCEPT !.pc = "publish", !.sigue = "return", !.campos = body]]
    /\ UNCHANGED <<catalog, stores, clock>>

\* enviar_notificacion_sns: sns.publish inside try/except; the metrics of its
\* outcome are next and, in the direct invocation, the total-time metric.
SnsPublish(p, outcome) ==
    /\ req[p].op \in {"sns", "http"} /\ req[p].pc = "publish"
    /\ LET r == Called(req[p], "sns.publish", outcome = "ok")
       IN  req' = [req EXCEPT ![p] =
                [r EXCEPT !.pc = "metrica", !.status = StatusCode(outcome),
                          !.resultado = outcome,
                          !.metricas =
                             IF r.sigue = "return"
                             THEN MetricasDe(outcome) \o <<"TiempoTotalEjecucion">>
                             ELSE MetricasDe(outcome)]]
    /\ topic' = IF outcome = "ok" THEN Append(topic, Notificacion(req[p].campos))
                ELSE topic
    /\ UNCHANGED <<catalog, notas, contenido, bucket, delivered, clock>>

\* enviar_metrica without its try/except: a failed put_metric_data leaves the
\* handler through its except block.
enviar_metrica_propaga(p, ok) ==
    /\ req[p].op \in {"sns", "http"} /\ req[p].pc = "metrica"
    /\ LET r == [Called(req[p], Head(req[p].metricas), ok) EXCEPT !.metricas = Tail(@)]
       IN  req' = [req EXCEPT ![p] =
                IF ~ok THEN RaisedConsumer(r)
                ELSE IF r.metricas # <<>> THEN r
                ELSE IF r.sigue = "record" THEN [r EXCEPT !.pc = "record"]
                ELSE Return(r, r.status)]
    /\ UNCHANGED <<catalog, stores, clock>>

\* enviar_metrica: put_metric_data inside try/except; after the last metric
\* of the branch, the loop goes on or the handler returns.
enviar_metrica(p, ok) ==
    /\ req[p].op \in {"sns", "http"} /\ req[p].pc = "metrica"
    /\ LET r == [Called(req[p], Head(req[p].metricas), ok) EXCEPT !.metricas = Tail(@)]
       IN  req' = [req EXCEPT ![p] =
                IF r.metricas # <<>> THEN r
                ELSE IF r.sigue = "record" THEN [r EXCEPT !.pc = "record"]
                ELSE Return(r, r.status)]
    /\ UNCHANGED <<catalog, stores, clock>>

\* The consumer on its own, invoked by SNS or directly.
NextConsumer ==
    \/ \E event \in SnsEvents \cup HttpEvents : lambda_handler(1, event)
    \/ Record(1)
    \/ Directo(1)
    \/ \E outcome \in Outcomes : SnsPublish(1, outcome)
    \/ \E ok \in BOOLEAN : enviar_metrica(1, ok)

SpecConsumer == Init /\ [][NextConsumer]_vars

\* ------------------------------------------------------------ document store
\* Addresses of the bucket that documents are sent to: two customers' notes.
StoreKeys ==
    {S3Key("ETE201125XYZ", Folio(1, [hi |-> "A1B2C3D4", lo |-> 1])),
     S3Key("XAXX010101000", Folio(1, [hi |-> "A1B2C3D4", lo |-> 1]))}

\* Documents sent: two renderings that differ in their total.
PdfInputs == {[NoPdf EXCEPT !.total = t] : t \in {1, 2}}

\* subir_pdf_s3(pdf_buffer, rfc_cliente, folio) called on its own: the key,
\* then head_object (S3Head) and put_object (S3Put).  A document is sent to an
\* address at most MaxEnvios times in a row.
subir_pdf_s3(p, pdf_buffer, rfc_cliente, folio) ==
    /\ req[p].pc \in {"idle", "done"}
    /\ LET key == S3Key(rfc_cliente, folio)
       IN  /\ key \in DOMAIN bucket /\ "veces_enviado" \in DOMAIN bucket[key].metadata
                 => bucket[key].metadata.veces_enviado < MaxEnvios
           /\ req' = [req EXCEPT ![p] =
                [Idle EXCEPT !.op = "put", !.pdf = pdf_buffer, !.key = key,
                             !.pc = "s3_head"]]
    /\ UNCHANGED <<catalog, stores, clock>>

\* The document store's two operations, one call at a time.
DocumentStore(p) ==
    \/ \E pdf \in PdfInputs, k \in StoreKeys : subir_pdf_s3(p, pdf, k[1], k[2])
    \/ \E ok \in BOOLEAN : S3Head(p, ok)
    \/ \E ok \in BOOLEAN : S3Put(p, ok)
    \/ \E k \in DownloadInputs : download_nota_pdf(p, k[1], k[2])
    \/ \E ok \in BOOLEAN : DlHead(p, ok)
    \/ \E ok \in BOOLEAN : DlGet(p, ok)
    \/ \E ok \in BOOLEAN : DlPut(p, ok)

\* ------------------------------------------------------------ time
\* Time passes: the next datetime.now() returns a later instant.
Tick ==
    /\ clock < MaxDay
    /\ clock' = clock + 1
    /\ UNCHANGED <<catalog, stores, req>>

\* ------------------------------------------------------------ specification
\* One notas-service invocation at a time, interleaved with the catalog.
Next ==
    \/ Catalogos
    \/ \E data \in NotaInputs : create_nota_venta(1, data)
    \/ Saga(1)

Spec == Init /\ [][Next]_vars

\* Every operation of the three services, one notas-service invocation at a
\* time, create-note with the end-to-end scenario's body.
NextFull ==
    \/ Catalogos
    \/ NotasService(1, NotaInputsE2E)
    \/ \E ok \in BOOLEAN : NotificationsHandler(ok)

SpecFull == Init /\ [][NextFull]_vars

\* The document store on its own: sequential sends and downloads, as time
\* passes.
NextStore ==
    \/ DocumentStore(1)
    \/ Tick

SpecStore == Init /\ [][NextStore]_vars

\* The catalog as the end-to-end scenario leaves it before its first note:
\* the customer, its two addresses and the two products.
InitCatalogo ==
    /\ clientes = [id \in ClienteIds |-> CHOOSE d \in ClienteInputs : TRUE]
    /\ domicilios = [id \in DomicilioIds |-> CHOOSE d \in DomicilioInputs : TRUE]
    /\ productos = [id \in ProductoIds |->
                       CHOOSE d \in ProductoInputs :
                           (id = "p1") = (d.nombre = "Laptop")]
    /\ notas = EmptyMap
    /\ contenido = EmptyMap
    /\ bucket = EmptyMap
    /\ topic = <<>>
    /\ delivered = 0
    /\ clock = 1
    /\ req = [p \in Procs |-> Idle]

\* Create-note bodies of concurrent requests: the scenario's and a one-line one.
NotaInputsConc == NotaInputsE2E \cup {FullData(UnaEntrada)}

\* The steps of a create-note invocation none of whose calls fails.
SagaOk(p) ==
    \/ GetCliente(p, TRUE)
    \/ GetDirFact(p, TRUE)
    \/ GetDirEnvio(p, TRUE)
    \/ GetProducto(p, TRUE)
    \/ \E frag \in Frags : NuevaNota(p, frag)
    \/ PutNota(p, TRUE)
    \/ PutContenido(p, TRUE)
    \/ GenerarPdf(p, TRUE)
    \/ S3Head(p, TRUE)
    \/ S3Put(p, TRUE)
    \/ Publish(p, TRUE)
    \/ Metrics(p, TRUE)

\* Create-note requests of the same customer handled at once, the stores
\* answering every call: the steps of their sagas interleave freely.
NextConc ==
    \E p \in Procs :
        \/ \E data \in NotaInputsConc : create_nota_venta(p, data)
        \/ SagaOk(p)

SpecConc == InitCatalogo /\ [][NextConc]_vars

\* Create-note bodies with numeric quantities that JSON allows: 0.5, 1, 1.5
\* and -0.5 of a product (in halves), alone or before a whole quantity.
NotaInputsFrac ==
    {FullData(<<[producto_id |-> "p1", cantidad |-> q]>>) : q \in {-1, 1, 2, 3}}
    \cup {FullData(<<[producto_id |-> "p2", cantidad |-> 3],
                      [producto_id |-> "p1", cantidad |-> 2]>>)}

\* One create-note invocation at a time on the scenario's catalog.
NextFrac ==
    \/ \E data \in NotaInputsFrac : create_nota_venta(1, data)
    \/ Saga(1)

SpecFrac == InitCatalogo /\ [][NextFrac]_vars

\* Two invocations at once on one address of the document store: their
\* head_object, get_object and put_object calls interleave freely.
RaceKey == CHOOSE k \in StoreKeys : k[1] = "ETE201125XYZ"

DocumentStoreRace(p) ==
    \/ \E pdf \in PdfInputs : subir_pdf_s3(p, pdf, RaceKey[1], RaceKey[2])
    \/ \E ok \in BOOLEAN : S3Head(p, ok)
    \/ \E ok \in BOOLEAN : S3Put(p, ok)
    \/ download_nota_pdf(p, RaceKey[1], RaceKey[2])
    \/ \E ok \in BOOLEAN : DlHead(p, ok)
    \/ \E ok \in BOOLEAN : DlGet(p, ok)
    \/ \E ok \in BOOLEAN : DlPut(p, ok)

NextRace == \E p \in Procs : DocumentStoreRace(p)

SpecRace == Init /\ [][NextRace]_vars

\* An RFC that RFC_REGEX accepts and that holds the character '&'.
RfcAmp == "P&G851223B24"

\* Customer bodies accepted by validate_cliente, one of them with that RFC.
ClienteInputsAmp ==
    ClienteInputs \cup {[rfc |-> RfcAmp, correo |-> "ventas@example.com"]}

\* The pieces of a text between its '&' characters (of the modelled texts
\* only RfcAmp holds one).
SplitAmp(s) == IF s = RfcAmp THEN <<"P", "G851223B24">> ELSE <<s>>

\* queryStringParameters of the request that a GET of download_url makes: the
\* text after '?' is cut at every '&' and each piece at its '=', so the value
\* of a parameter is what was interpolated for it up to its first '&'.
QueryStringParameters(download_url) ==
    [rfc |-> SplitAmp(download_url.rfc)[1], folio |-> SplitAmp(download_url.folio)[1]]

\* The recipient of a forwarded notification opens its link: GET
\* /notas/download with the link's query parameters.
FollowUrl(p) ==
    \E i \in 1..Len(topic) :
        /\ ~topic[i].json
        /\ LET query == QueryStringParameters(topic[i].data.download_url)
           IN  download_nota_pdf(p, query.rfc, query.folio)

\* The scenario's catalog, its customer being any accepted one.
InitNotif ==
    /\ clientes \in [ClienteIds -> ClienteInputsAmp]
    /\ domicilios = [id \in DomicilioIds |-> CHOOSE d \in DomicilioInputs : TRUE]
    /\ productos = [id \in ProductoIds |->
                       CHOOSE d \in ProductoInputs :
                           (id = "p1") = (d.nombre = "Laptop")]
    /\ notas = EmptyMap
    /\ contenido = EmptyMap
    /\ bucket = EmptyMap
    /\ topic = <<>>
    /\ delivered = 0
    /\ clock = 1
    /\ req = [p \in Procs |-> Idle]

\* A create-note, the notification of its event and the downloads made from
\* the notified link.
NextNotif ==
    \/ \E data \in NotaInputsE2E : create_nota_venta(1, data)
    \/ Saga(1)
    \/ \E ok \in BOOLEAN : NotificationsHandler(ok)
    \/ FollowUrl(1)
    \/ \E ok \in BOOLEAN : DlHead(1, ok)
    \/ \E ok \in BOOLEAN : DlGet(1, ok)
    \/ \E ok \in BOOLEAN : DlPut(1, ok)

SpecNotif == InitNotif /\ [][NextNotif]_vars

\* Create-note invocations and the consumer subscribed to the topic they
\* publish to.  SNS hands every published message to its subscriber: the
\* consumer's turn to handle the next message is never put off for ever.
NextPipeline ==
    \/ \E data \in NotaInputsConc : create_nota_venta(1, data)
    \/ Saga(1)
    \/ \E ok \in BOOLEAN : NotificationsHandler(ok)
    \/ Tick

SpecPipeline ==
    /\ InitCatalogo
    /\ [][NextPipeline]_vars
    /\ WF_vars(\E ok \in BOOLEAN : NotificationsHandler(ok))

\* One create-note invocation at a time on the scenario's catalog, as time
\* passes between its steps.
NextReloj ==
    \/ \E data \in NotaInputsE2E : create_nota_venta(1, data)
    \/ Saga(1)
    \/ Tick

SpecReloj == InitCatalogo /\ [][NextReloj]_vars

\* An object of the bucket that subir_pdf_s3 did not write: its metadata has
\* no 'veces-enviado' entry.
Ajeno == [body |-> NoPdf, metadata |-> [hora_envio |-> 0, nota_descargada |-> "true"]]

\* The bucket empty, or holding such an object at an address documents are
\* sent to.
InitAjeno ==
    /\ clientes = EmptyMap
    /\ domicilios = EmptyMap
    /\ productos = EmptyMap
    /\ notas = EmptyMap
    /\ contenido = EmptyMap
    /\ bucket \in {EmptyMap, [k \in {RaceKey} |-> Ajeno]}
    /\ topic = <<>>
    /\ delivered = 0
    /\ clock = 1
    /\ req = [p \in Procs |-> Idle]

\* Sequential calls of subir_pdf_s3, as time passes.
NextAjeno ==
    \/ \E pdf \in PdfInputs, k \in StoreKeys : subir_pdf_s3(1, pdf, k[1], k[2])
    \/ \E ok \in BOOLEAN : S3Head(1, ok)
    \/ \E ok \in BOOLEAN : S3Put(1, ok)
    \/ Tick

SpecAjeno == InitAjeno /\ [][NextAjeno]_vars

\* A create-note and the get-note requests of another invocation, interleaved
\* with each other and with the catalog.
NextLectura ==
    \/ Catalogos
    \/ \E data \in NotaInputsE2E : create_nota_venta(1, data)
    \/ Saga(1)
    \/ \E id \in GetInputs, ok \in BOOLEAN : get_nota_venta(2, id, ok)
    \/ \E ok \in BOOLEAN : ErrorMetric(2, ok)

SpecLectura == Init /\ [][NextLectura]_vars

\* ------------------------------------------------------------ JSON
\* A Decimal amount with two decimals, 2^exp + resto + cent/100, written with
\* the power of two apart because amounts above 2^31 are among the inputs.
RECURSIVE Pow2(_)
Pow2(n) == IF n = 0 THEN 1 ELSE 2 * Pow2(n - 1)

\* a/b rounded to the nearest integer, ties to the even one (IEEE 754).
RoundHalfEven(a, b) ==
    LET f == a \div b
        r == a % b
    IN  IF 2 * r < b THEN f
        ELSE IF 2 * r > b THEN f + 1
        ELSE IF f % 2 = 0 THEN f ELSE f + 1

\* Bits of a binary64 significand (53) left for the fraction of a number in
\* [2^exp, 2^(exp+1)).
FracBits(exp) == 52 - exp

\* float(obj): the fraction of the nearest binary64, in units of
\* 2^-FracBits(exp); the integer part is represented exactly.
FloatFrac(exp, cent) == RoundHalfEven(cent * Pow2(FracBits(exp)), 100)

\* repr of that float, as json.dumps writes it: the decimal with the fewest
\* digits that float() maps to the same binary64, the nearest to it when
\* there are several (of two equally near, the one with an even last digit).
\* The result is the fraction in cents (100 = the next integer).
Repr(exp, frac) ==
    LET cands(step) == {c \in 0..100 : c % step = 0 /\ FloatFrac(exp, c) = frac}
        step == IF cands(100) # {} THEN 100 ELSE IF cands(10) # {} THEN 10 ELSE 1
        dist(c) == LET x == c * Pow2(FracBits(exp)) - frac * 100
                   IN  IF x < 0 THEN -x ELSE x
    IN  CHOOSE c \in cands(step) :
            \A o \in cands(step) :
                \/ dist(c) < dist(o)
                \/ dist(c) = dist(o) /\ (c = o \/ (c \div step) % 2 = 0)

\* decimal_to_json(obj): float(obj) if obj % 1 else int(obj), as written by
\* json.dumps.
decimal_to_json(obj) ==
    IF obj.cent # 0
    THEN [tipo |-> "float", exp |-> obj.exp, resto |-> obj.resto,
          cent |-> Repr(obj.exp, FloatFrac(obj.exp, obj.cent))]
    ELSE [tipo |-> "int", exp |-> obj.exp, resto |-> obj.resto, cent |-> 0]

\* Amounts serialized: every number of cents above 2^28 + {0, 1},
\* 2^45 + {0, 1} and 2^46 + {0, 1}.
Decimals == [exp : {28, 45, 46}, resto : {0, 1}, cent : 0..99]

\* response(status_code, body) for a body holding one Decimal: the body as
\* json.dumps(body, default=decimal_to_json) writes it.
response(p, obj) ==
    /\ req[p].pc = "idle"
    /\ req' = [req EXCEPT ![p] =
            [Idle EXCEPT !.op = "response", !.pc = "done", !.status = 200,
                         !.body = [total |-> obj, json |-> decimal_to_json(obj)]]]
    /\ UNCHANGED <<catalog, stores, clock>>

\* One response is serialized: an invocation builds one.
NextJson == \E obj \in Decimals : response(1, obj)

SpecJson == Init /\ [][NextJson]_vars

\* ------------------------------------------------------------ properties
\* The calls of a trace that write to a store or publish.
WriteCalls == {"notas.put_item", "contenido.put_item", "s3.put_object", "sns.publish"}

\* The calls whose failure leaves create-note (the others sit in a try/except).
PropagatingCalls ==
    {"clientes.get_item", "domicilios.get_item", "productos.get_item",
     "notas.put_item", "contenido.put_item", "generar_pdf", "s3.put_object"}

Names(calls) == {calls[i].call : i \in 1..Len(calls)}

Count(calls, name, ok) ==
    Cardinality({i \in 1..Len(calls) : calls[i].call = name /\ calls[i].ok = ok})

Creates == {p \in Procs : req[p].op = "create"}

LastCall(p) == req[p].calls[Len(req[p].calls)]

LastCallNext(p) == req'[p].calls[Len(req'[p].calls)]

\* A step appended `name`, answered ok, to some invocation's trace.
Appended(name) ==
    \E p \in Procs :
        /\ Len(req'[p].calls) = Len(req[p].calls) + 1
        /\ LastCallNext(p) = Call(name, TRUE)

\* Every change of a store is the effect of the matching successful call of
\* one invocation (the topic also grows by the notification service).
StoresFollowCalls ==
    /\ notas' # notas => Appended("notas.put_item")
    /\ contenido' # contenido => Appended("contenido.put_item")
    /\ bucket' # bucket => Appended("s3.put_object")
    /\ topic' # topic => Appended("sns.publish") \/ delivered' # delivered

RECURSIVE SumaLineas(_)
SumaLineas(ids) ==
    IF ids = {} THEN 0
    ELSE LET l == CHOOSE x \in ids : TRUE
         IN  contenido[l].importe + SumaLineas(ids \ {l})

RECURSIVE SumaPedido(_, _)
SumaPedido(entradas, lineas) ==
    IF entradas = <<>> \/ lineas = <<>> THEN 0
    ELSE entradas[1].cantidad * lineas[1].precio_unitario
         + SumaPedido(Tail(entradas), Tail(lineas))

\* C1: a create-note invocation that ends with 400 or 404 attempted no write
\* to the note table, the line table or the bucket and no publish; and the
\* stores change only by such calls, so they are as the invocation found them.
C1_RejectedWritesNothing ==
    /\ [](\A p \in Creates :
            req[p].pc = "done" /\ req[p].status \in {400, 404}
            => Names(req[p].calls) \cap WriteCalls = {})
    /\ [][StoresFollowCalls]_vars

\* C1 witness: the second product of the list is unresolved after the first
\* one was resolved, and the response is 404.
C1_Witness ==
    /\ req[1].op = "create" /\ req[1].pc = "done" /\ req[1].status = 404
    /\ Len(req[1].data.productos) = 2
    /\ Count(req[1].calls, "productos.get_item", TRUE) = 2
    /\ req[1].body.error = "Producto no encontrado"

\* The rank of a write in the saga's order.
Rank(name) ==
    CASE name = "notas.put_item" -> 1
      [] name = "contenido.put_item" -> 2
      [] name = "s3.put_object" -> 3
      [] name = "sns.publish" -> 4
      [] OTHER -> 0

Writes(calls) == SelectSeq(calls, LAMBDA c : c.call \in WriteCalls)

\* C2: the writes of one create-note invocation come in the order Note, every
\* NoteLine, artifact, publish, each after the success of the one before; a
\* published event's artifact is in the bucket, and an artifact in the bucket
\* belongs to a stored Note whose lines are all stored.
C2_EffectsInOrder ==
    /\ \A p \in Creates :
        LET w == Writes(req[p].calls)
        IN  /\ \A i \in 1..Len(w) : \A j \in 1..Len(w) :
                  i < j => /\ w[i].ok
                           /\ Rank(w[i].call) <= Rank(w[j].call)
                           /\ Rank(w[i].call) = Rank(w[j].call) => Rank(w[i].call) = 2
            /\ Len(w) > 0 => w[1].call = "notas.put_item"
            /\ "s3.put_object" \in Names(w)
                  => Count(w, "contenido.put_item", TRUE) = Len(req[p].data.productos)
            /\ "sns.publish" \in Names(w) => Count(w, "s3.put_object", TRUE) = 1
    /\ \A i \in 1..Len(topic) :
        topic[i].json => S3Key(topic[i].data.rfc, topic[i].data.folio) \in DOMAIN bucket
    /\ \A k \in DOMAIN bucket :
        \E id \in DOMAIN notas :
            /\ notas[id].folio = k[2]
            /\ Cardinality(LineasDe(id)) = Len(bucket[k].body.filas)
            /\ Fmt2(notas[id].total) = bucket[k].body.total

\* C2 witness: a create-note ended with its event published.
C2_Witness ==
    /\ req[1].op = "create" /\ req[1].pc = "done" /\ req[1].status = 201
    /\ topic # <<>> /\ bucket # EmptyMap
    /\ Len(req[1].data.productos) = 2

\* C3: a failure of the Note write, of a NoteLine write, of the rendering or
\* of the upload is the last step of the saga and gives 500; the Note and the
\* lines written before it are still stored, unchanged.
C3_FailureKeepsWrites ==
    \A p \in Creates :
        LET c == req[p].calls
            failed == {i \in 1..Len(c) : c[i].call \in PropagatingCalls /\ ~c[i].ok}
        IN  /\ req[p].pc = "error_metric"
                => /\ failed = {Len(c)}
            /\ req[p].pc = "done"
                => /\ (req[p].status = 500) = (failed # {})
                   /\ req[p].status = 500
                        => /\ failed = {Len(c) - 1}
                           /\ c[Len(c)].call = "cloudwatch.put_metric_data"
            /\ req[p].pc \in {"error_metric", "done"} /\ failed # {}
                => /\ Count(c, "notas.put_item", TRUE) = 1
                      => /\ req[p].nota.id \in DOMAIN notas
                         /\ notas[req[p].nota.id] = req[p].nota
                         /\ Cardinality(LineasDe(req[p].nota.id))
                               = Count(c, "contenido.put_item", TRUE)
                   /\ Count(c, "notas.put_item", TRUE) = 0
                      => req[p].nota.id \notin DOMAIN notas

\* C3 witness: the second NoteLine write failed; the Note and the first line
\* are stored and the response is 500.
C3_Witness ==
    /\ req[1].op = "create" /\ req[1].pc = "done" /\ req[1].status = 500
    /\ Count(req[1].calls, "contenido.put_item", TRUE) = 1
    /\ Count(req[1].calls, "contenido.put_item", FALSE) = 1
    /\ req[1].nota.id \in DOMAIN notas
    /\ Cardinality(LineasDe(req[1].nota.id)) = 1

\* C4: the publish step, failed or not, changes no table and no artifact and
\* is followed by the metrics step; a create-note that reached the publish
\* ends with 201 and a body holding the Note, its lines and the artifact key.
C4_PublishNeverFails ==
    /\ [][\A p \in Procs :
            req[p].pc = "publish" /\ req'[p] # req[p]
            => /\ req'[p].pc = "metrics"
               /\ UNCHANGED <<notas, contenido, bucket>>
               /\ topic' # topic => LastCallNext(p).ok]_vars
    /\ [](\A p \in Creates :
            req[p].pc = "done" /\ "sns.publish" \in Names(req[p].calls)
            => /\ req[p].status = 201
               /\ req[p].body.nota = notas[req[p].nota.id]
               /\ Len(req[p].body.contenidos) = Len(req[p].data.productos)
               /\ req[p].body.s3_key \in DOMAIN bucket)

\* C4 witness: a create-note whose publish failed ended with 201.
C4_Witness ==
    /\ req[1].op = "create" /\ req[1].pc = "done" /\ req[1].status = 201
    /\ Count(req[1].calls, "sns.publish", FALSE) = 1

C6_StoredTotalAndLines ==
    \A p \in Creates :
        req[p].pc = "done" /\ req[p].status = 201
        => LET id == req[p].body.nota.id
           IN  /\ id \in DOMAIN notas
               /\ notas[id].total = SumaLineas(LineasDe(id))
               /\ Cardinality(LineasDe(id)) = Len(req[p].data.productos)

\* C6 witness: a 201 for a request that lists the same product twice.
C6_Witness ==
    /\ req[1].op = "create" /\ req[1].pc = "done" /\ req[1].status = 201
    /\ Len(req[1].data.productos) = 2
    /\ req[1].data.productos[1].producto_id = req[1].data.productos[2].producto_id
    /\ Cardinality(LineasDe(req[1].body.nota.id)) = 2

\* C7: a stored Note or NoteLine is never modified nor deleted, by any
\* operation of the three services.
C7_NotesAreImmutable ==
    [][/\ \A id \in DOMAIN notas : id \in DOMAIN notas' /\ notas'[id] = notas[id]
       /\ \A id \in DOMAIN contenido :
            id \in DOMAIN contenido' /\ contenido'[id] = contenido[id]]_vars

\* C7 witness: a Note with its lines is stored, and since then its customer
\* was deleted, a product of it was re-priced or deleted, its document was
\* downloaded and its event was handed to the notification service.
C7_Witness ==
    \E id \in DOMAIN notas :
        /\ notas[id].cliente_id \notin DOMAIN clientes
        /\ Cardinality(LineasDe(id)) = 2
        /\ \E l \in LineasDe(id) :
              \/ contenido[l].producto_id \notin DOMAIN productos
              \/ productos[contenido[l].producto_id].precio_base # contenido[l].precio_unitario
        /\ \E k \in DOMAIN bucket : bucket[k].metadata.nota_descargada = "true"
        /\ delivered > 0
        /\ req[1].op = "get" /\ req[1].pc = "done"

\* A request body with an empty product list or a quantity <= 0.
BadProductos(data) ==
    \/ data.productos = <<>>
    \/ \E i \in 1..Len(data.productos) : data.productos[i].cantidad <= 0

\* C8: the step that takes a create-note request with an empty product list or
\* a quantity <= 0 answers 400 at once: it makes no call to a store and
\* changes none, so no Note is stored for it.
C8_BadProductosRejected ==
    [][\A p \in Procs :
         req'[p] # req[p] /\ req'[p].op = "create" /\ BadProductos(req'[p].data)
         => /\ req'[p].pc = "done" /\ req'[p].status = 400
            /\ req'[p].calls = <<>>
            /\ UNCHANGED <<catalog, stores>>]_vars

\* C8 witness: a request whose second entry has quantity 0 was answered 400
\* while the customer, the addresses and the products exist.
C8_Witness ==
    /\ req[1].op = "create" /\ req[1].pc = "done" /\ req[1].status = 400
    /\ Len(req[1].data.productos) = 2
    /\ req[1].data.productos[1].cantidad > 0
    /\ req[1].data.productos[2].cantidad = 0
    /\ "c1" \in DOMAIN clientes /\ DOMAIN domicilios = {"d1", "d2"}
    /\ DOMAIN productos = {"p1", "p2"}


\* The send counter and the downloaded flag stored at an address.
Veces(b, k) == b[k].metadata.veces_enviado

Descargada(b, k) == b[k].metadata.nota_descargada

\* A step in which the put_object of subir_pdf_s3 wrote the address k, its
\* head_object having answered `found`.
PutWroteAfter(k, found) ==
    \E p \in Procs :
        /\ req[p].op \in {"put", "create"} /\ req[p].pc = "s3_put"
        /\ req[p].key = k
        /\ LastCall(p) = Call("s3.head_object", found)
        /\ req'[p].pc # "s3_put"
        /\ LastCallNext(p) = Call("s3.put_object", TRUE)

PutWrote(k) == \E found \in BOOLEAN : PutWroteAfter(k, found)

\* C9: under sequential calls of subir_pdf_s3 for one address, the send
\* counter is 1 after the first write, never decreases from one step to the
\* next, and each later put stores the previous counter plus one.
C9_SendCounterNeverDecreases ==
    [][\A k \in DOMAIN bucket' :
         /\ k \notin DOMAIN bucket => Veces(bucket', k) = 1
         /\ k \in DOMAIN bucket => Veces(bucket', k) >= Veces(bucket, k)
         /\ k \in DOMAIN bucket /\ PutWrote(k)
               => Veces(bucket', k) = Veces(bucket, k) + 1]_vars

\* C10: subir_pdf_s3 sets the downloaded flag to false only at an address
\* that holds nothing; a put that found a document at the address adds one
\* to its send counter and leaves its flag as it was, so a flag set true by a
\* download stays true.
C10_ResendKeepsDownloadedFlag ==
    [][\A k \in DOMAIN bucket' :
         /\ k \notin DOMAIN bucket /\ PutWrote(k) => Descargada(bucket', k) = "false"
         /\ k \in DOMAIN bucket /\ PutWroteAfter(k, TRUE)
               => /\ Veces(bucket', k) = Veces(bucket, k) + 1
                  /\ Descargada(bucket', k) = Descargada(bucket, k)]_vars

\* A step in which the put_object of download_nota_pdf wrote the address k.
DlWrote(k) ==
    \E p \in Procs :
        /\ req[p].op = "download" /\ req[p].pc = "dl_put"
        /\ req[p].key = k
        /\ req'[p].pc = "done" /\ req'[p].status = 302

\* A step of a download_nota_pdf call.
DlStep == \E p \in Procs : req[p].op = "download" /\ req'[p] # req[p]

\* C11: a download that succeeds on a stored document leaves its downloaded
\* flag true, whether it was false (the first one) or already true; a repeated
\* download leaves the whole object as it was; and the document of a download
\* answered 302 has the flag true.
C11_DownloadSetsFlag ==
    /\ [][\A k \in DOMAIN bucket :
            DlWrote(k)
            => /\ Descargada(bucket', k) = "true"
               /\ Descargada(bucket, k) = "true" => bucket'[k] = bucket[k]]_vars
    /\ [](\A p \in Procs :
            req[p].op = "download" /\ req[p].pc = "done" /\ req[p].status = 302
            => /\ req[p].body.Location.key \in DOMAIN bucket
               /\ Descargada(bucket, req[p].body.Location.key) = "true")

\* C11 witness: a second download of a document whose flag the first one set
\* has read the object and is about to write it back.
C11_Witness ==
    /\ req[1].op = "download" /\ req[1].pc = "dl_put"
    /\ req[1].key \in DOMAIN bucket
    /\ Descargada(bucket, req[1].key) = "true"
    /\ req[1].metadata = bucket[req[1].key].metadata

\* C12: a download running alone leaves the document's bytes, send counter
\* and send timestamp as they were and stores no other address; its steps
\* before the put_object change nothing in the bucket.
C12_DownloadKeepsTheRest ==
    [][DlStep
       => /\ DOMAIN bucket' = DOMAIN bucket
          /\ \A k \in DOMAIN bucket :
               /\ bucket'[k].body = bucket[k].body
               /\ Veces(bucket', k) = Veces(bucket, k)
               /\ bucket'[k].metadata.hora_envio = bucket[k].metadata.hora_envio
               /\ ~DlWrote(k) => bucket'[k] = bucket[k]]_vars

\* C12 witness: a document sent twice on day 1 was downloaded on day 2, and
\* still has its counter 2 and its send time 1.
C12_Witness ==
    /\ req[1].op = "download" /\ req[1].pc = "done" /\ req[1].status = 302
    /\ clock = 2
    /\ LET k == req[1].body.Location.key
       IN  /\ k \in DOMAIN bucket
           /\ Veces(bucket, k) = 2
           /\ bucket[k].metadata.hora_envio = 1
           /\ Descargada(bucket, k) = "true"

\* The largest send counter an address holds or that a call in flight has
\* read from it (0 when there is none).
CounterKnown(k) ==
    Max({0}
        \cup {Veces(bucket, kk) : kk \in {k} \cap DOMAIN bucket}
        \cup {req[p].veces_enviado - 1 :
                 p \in {q \in Procs : req[q].pc = "s3_put" /\ req[q].key = k}}
        \cup {req[p].metadata.veces_enviado :
                 p \in {q \in Procs : req[q].pc \in {"dl_get", "dl_put"} /\ req[q].key = k}})

\* C13: whatever the interleaving of concurrent calls on an address, its send
\* counter is at least 1, and the largest counter stored or read grows by at
\* most one with each put_object of subir_pdf_s3 that completes and by nothing
\* otherwise: the counter ends at most at the previous one plus the number of
\* completed puts.  (That two puts can add only 1 is the witness.)
C13_CounterBounds ==
    /\ [](\A k \in DOMAIN bucket : Veces(bucket, k) >= 1 /\ Veces(bucket, k) <= CounterKnown(k))
    /\ [][CounterKnown(RaceKey)' <= CounterKnown(RaceKey)
                                      + (IF PutWrote(RaceKey) THEN 1 ELSE 0)]_vars

\* C13 witness: two puts to an address that held counter 1 both found the
\* object, both stored it, and the counter is 2: one increment is lost.
C13_Witness ==
    /\ \A p \in Procs :
          /\ req[p].op = "put" /\ req[p].pc = "done" /\ req[p].key = RaceKey
          /\ req[p].calls = <<Call("s3.head_object", TRUE), Call("s3.put_object", TRUE)>>
          /\ req[p].veces_enviado = 2
    /\ Veces(bucket, RaceKey) = 2

\* The create-note invocations that have allocated their note identity.
ConNota == {p \in Creates : req[p].nota # NoNota}

\* C14: concurrent create-note requests write Notes and NoteLines under
\* distinct keys, no step overwrites a stored Note, NoteLine or artifact, and
\* a request answered 201 has its own complete line set and, at its address,
\* the artifact rendered from its own note.
C14_CreatesNeverCollide ==
    /\ [](\A p \in ConNota : \A q \in ConNota :
            p # q => req[p].nota.id # req[q].nota.id)
    /\ [][/\ \A id \in DOMAIN notas : id \in DOMAIN notas' /\ notas'[id] = notas[id]
          /\ \A id \in DOMAIN contenido :
                id \in DOMAIN contenido' /\ contenido'[id] = contenido[id]
          /\ \A k \in DOMAIN bucket : k \in DOMAIN bucket' /\ bucket'[k] = bucket[k]]_vars
    /\ [](\A p \in Creates :
            req[p].pc = "done" /\ req[p].status = 201
            => /\ Cardinality(LineasDe(req[p].nota.id)) = Len(req[p].data.productos)
               /\ req[p].body.s3_key \in DOMAIN bucket
               /\ bucket[req[p].body.s3_key].body
                     = generar_pdf(req[p].body.nota,
                                   clientes[req[p].body.nota.cliente_id],
                                   req[p].body.contenidos))

\* C15: two distinct stored Notes never have the same folio, hence two Notes
\* of one customer never share an address of the bucket; and a Note's folio
\* is made of its creation date and the first 8 characters of its identity.
C15_FolioUnique ==
    /\ \A a \in DOMAIN notas : \A b \in DOMAIN notas :
          a # b => /\ notas[a].folio # notas[b].folio
                   /\ notas[a].cliente_id = notas[b].cliente_id
                         => S3Key(clientes[notas[a].cliente_id].rfc, notas[a].folio)
                              # S3Key(clientes[notas[b].cliente_id].rfc, notas[b].folio)
    /\ \A a \in DOMAIN notas : notas[a].folio = Folio(notas[a].created_at, a)

\* The publish attempts of a call trace.
Publishes(calls) == Count(calls, "sns.publish", TRUE) + Count(calls, "sns.publish", FALSE)

\* C16: a create-note answered 201 made exactly one publish attempt, and one
\* answered 400, 404 or 500 made none.
C16_OnePublishAttempt ==
    \A p \in Creates :
        req[p].pc = "done"
        => /\ req[p].status \in {201, 400, 404, 500}
           /\ req[p].status = 201 => Publishes(req[p].calls) = 1
           /\ req[p].status # 201 => Publishes(req[p].calls) = 0

\* C16 witness: a 201 whose single attempt put the one message of the topic.
C16_Witness ==
    /\ req[1].op = "create" /\ req[1].pc = "done" /\ req[1].status = 201
    /\ Count(req[1].calls, "sns.publish", TRUE) = 1
    /\ Len(topic) = 1

\* A step that is a get-note of p on a stored Note whose customer and
\* addresses are in the catalog and whose reads the tables all answered.
GetAnswered(p) ==
    /\ req[p].pc \in {"idle", "done"}
    /\ req'[p] # req[p] /\ req'[p].op = "get"
    /\ req'[p].calls[1].ok
    /\ req'[p].nota.id \in DOMAIN notas
    /\ LET nota == notas[req'[p].nota.id]
       IN  /\ nota.cliente_id \in DOMAIN clientes
           /\ nota.direccion_facturacion_id \in DOMAIN domicilios
           /\ nota.direccion_envio_id \in DOMAIN domicilios

\* C17: no update or deletion of a product changes the unit price or the
\* amount of a stored NoteLine or the total of its Note, and a get-note of the
\* Note, whatever became of its products, answers 200 with the unit price and
\* the amount stored for each of its lines.
C17_LinesAreSnapshots ==
    /\ [][\A l \in DOMAIN contenido :
            /\ l \in DOMAIN contenido'
            /\ contenido'[l].precio_unitario = contenido[l].precio_unitario
            /\ contenido'[l].importe = contenido[l].importe
            /\ contenido[l].nota_id \in DOMAIN notas
                  => /\ contenido[l].nota_id \in DOMAIN notas'
                     /\ notas'[contenido[l].nota_id].total
                           = notas[contenido[l].nota_id].total]_vars
    /\ [][\A p \in Procs :
            GetAnswered(p)
            => /\ req'[p].pc = "done" /\ req'[p].status = 200
               /\ {c.id : c \in req'[p].body.contenidos} = LineasDe(req'[p].nota.id)
               /\ \A c \in req'[p].body.contenidos :
                     /\ c.precio_unitario = contenido[c.id].precio_unitario
                     /\ c.importe = contenido[c.id].importe]_vars

\* C18: every stored NoteLine record has a product name of its own, and a
\* get-note reports that name for the line, not the product's current one.
C18_LineCarriesProductName ==
    /\ \A l \in DOMAIN contenido : "producto_nombre" \in DOMAIN contenido[l]
    /\ \A p \in Procs :
          req[p].op = "get" /\ req[p].pc = "done" /\ req[p].status = 200
          => \A c \in req[p].body.contenidos :
                /\ "producto_nombre" \in DOMAIN contenido[c.id]
                /\ "producto_nombre" \in DOMAIN c

\* C19: the quantity of every stored NoteLine is a positive whole number
\* (quantities are counted in halves: a whole number is an even one).
C19_QuantityPositiveInteger ==
    \A l \in DOMAIN contenido :
        /\ contenido[l].cantidad > 0
        /\ contenido[l].cantidad % 2 = 0

\* A step in which p's invocation of a notas-service operation ends.
Responds(p) == req'[p] # req[p] /\ req'[p].pc = "done" /\ req'[p].op # "put"

\* The response of that step is for a request naming something absent: a
\* customer, address (the billing one when it was read) or product of the
\* body, the note, or the artifact.
NamesAbsent(p) ==
    LET r == req'[p]
    IN  CASE r.op = "create" ->
               \/ r.data.cliente_id \notin DOMAIN clientes
               \/ req[p].pc = "get_dir_envio" /\ ~req[p].dir_fact
               \/ r.data.direccion_envio_id \notin DOMAIN domicilios
               \/ \E i \in 1..Len(r.data.productos) :
                     r.data.productos[i].producto_id \notin DOMAIN productos
          [] r.op = "get" -> r.nota.id \notin DOMAIN notas
          [] OTHER -> req[p].key \notin DOMAIN bucket

\* A call of the invocation failed though what it named is stored: a table,
\* the renderer or the bucket did not answer.
StoreFailed(p) ==
    LET r == req'[p]
    IN  CASE r.op = "create" ->
               \E i \in 1..Len(r.calls) :
                   r.calls[i].call \in PropagatingCalls /\ ~r.calls[i].ok
          [] r.op = "get" -> r.calls # <<>> /\ ~r.calls[1].ok
          [] OTHER -> /\ req[p].pc \in {"dl_head", "dl_get", "dl_put"}
                      /\ req[p].key \in DOMAIN bucket
                      /\ ~LastCallNext(p).ok

\* C20: a notas-service response is 400 only for a request rejected before
\* any store is called, 404 only when something the request names is absent,
\* and 500 whenever a table, the renderer or the bucket failed, in create-note,
\* get-note and download alike.
C20_StatusTaxonomy ==
    [][\A p \in Procs :
         Responds(p)
         => /\ req'[p].status = 400
                 => /\ req'[p].calls = <<>>
                    /\ req'[p].op = "create" => ~validate_nota_venta(req'[p].data)[1]
                    /\ req'[p].op # "get"
            /\ req'[p].status = 404 => NamesAbsent(p)
            /\ StoreFailed(p) => req'[p].status = 500]_vars

\* The 201 body of a create-note whose locals are r.
Body201(r) ==
    [nota |-> r.nota, contenidos |-> r.contenidos, s3_key |-> r.key,
     message |-> "Nota de venta creada y evento de notificacion publicado"]

\* C21: the metric emission that ends create-note, failed or not, is followed
\* by the 201 response with the body built from the note, its lines and the
\* artifact key, and changes no store; the error-count emission of the
\* handler's error path, failed or not, is followed by the 500 error body and
\* changes no store.
C21_MetricFailureSwallowed ==
    [][\A p \in Procs :
         /\ req[p].pc = "metrics" /\ req'[p] # req[p]
               => /\ req'[p].pc = "done" /\ req'[p].status = 201
                  /\ req'[p].body = Body201(req[p])
                  /\ UNCHANGED <<catalog, stores>>
         /\ req[p].pc = "error_metric" /\ req'[p] # req[p]
               => /\ req'[p].pc = "done" /\ req'[p].status = 500
                  /\ req'[p].body = [error |-> "Error interno"]
                  /\ UNCHANGED <<catalog, stores>>]_vars

\* C21 witness: a create-note whose metric emission failed was answered 201
\* with its note, its two lines and its stored artifact's key.
C21_Witness ==
    /\ req[1].op = "create" /\ req[1].pc = "done" /\ req[1].status = 201
    /\ LastCall(1) = Call("cloudwatch.put_metric_data", FALSE)
    /\ req[1].body.nota = notas[req[1].nota.id]
    /\ Len(req[1].body.contenidos) = 2
    /\ req[1].body.s3_key \in DOMAIN bucket

\* The addresses of the artifacts whose events were published.
Notified == {S3Key(topic[i].data.rfc, topic[i].data.folio) :
                i \in {j \in 1..Len(topic) : topic[j].json}}

\* A step that starts a download_nota_pdf of p.
DlStarts(p) ==
    /\ req[p].pc \in {"idle", "done"}
    /\ req'[p] # req[p] /\ req'[p].op = "download"

\* C22: a download made from the link of a notification addresses the
\* artifact of a published event, which is stored; and a download answered 302
\* redirects to the address that holds the rendering of the Note of that
\* folio.
C22_NotifiedUrlAddressesArtifact ==
    /\ [][\A p \in Procs :
            DlStarts(p)
            => /\ req'[p].pc = "dl_head"
               /\ req'[p].key \in Notified
               /\ req'[p].key \in DOMAIN bucket]_vars
    /\ [](\A p \in Procs :
            req[p].op = "download" /\ req[p].pc = "done" /\ req[p].status = 302
            => LET k == req[p].body.Location.key
               IN  /\ k \in Notified
                   /\ \E id \in DOMAIN notas :
                        /\ notas[id].folio = k[2]
                        /\ clientes[notas[id].cliente_id].rfc = k[1]
                        /\ bucket[k].body.folio = notas[id].folio
                        /\ bucket[k].body.total = Fmt2(notas[id].total))

\* C23: a download is answered 302 only by the step that wrote the object
\* back, its body is nothing but the Location, a handle for the address the
\* request named with an expiry of 15 minutes whatever the request and the
\* time, and no download is answered with another success status.
C23_DownloadRedirects ==
    /\ [][\A p \in Procs :
            /\ req'[p] # req[p] /\ req'[p].op = "download"
            /\ req'[p].pc = "done" /\ req'[p].status = 302
            => /\ req[p].pc = "dl_put"
               /\ req[p].key \in DOMAIN bucket'
               /\ req'[p].body = [Location |-> [key |-> req[p].key, expires |-> 15 * 60]]
               /\ req'[p].pdf = NoPdf]_vars
    /\ [](\A p \in Procs :
            req[p].op = "download" /\ req[p].pc = "done"
            => req[p].status \in {302, 400, 404})

\* C23 witness: on day 2 a download of a document sent on day 1 was answered
\* with the redirect to its address.
C23_Witness ==
    /\ req[1].op = "download" /\ req[1].pc = "done" /\ req[1].status = 302
    /\ clock = 2
    /\ req[1].body.Location.key \in StoreKeys \cap DOMAIN bucket
    /\ bucket[req[1].body.Location.key].metadata.hora_envio = 1
    /\ req[1].body.Location.expires = ExpiresIn

\* C24: a Decimal in a response body is written as an integer when it is
\* whole and as a decimal number otherwise, and the number written equals the
\* Decimal.
C24_JsonEqualsStored ==
    \A p \in Procs :
        req[p].op = "response"
        => LET obj == req[p].body.total
               json == req[p].body.json
           IN  /\ json.tipo = (IF obj.cent = 0 THEN "int" ELSE "float")
               /\ json.exp = obj.exp
               /\ json.resto * 100 + json.cent = obj.resto * 100 + obj.cent

\* A step in which p's create-note is answered 400 or 404.
Rejects(p) ==
    /\ req'[p] # req[p] /\ req'[p].op = "create"
    /\ req'[p].pc = "done" /\ req'[p].status \in {400, 404}

\* C25: a create-note is rejected by the first gate that fails, in the order
\* validation, customer, billing address, shipping address, products as
\* listed.  A 400 comes before any read; the customer's 404 before any address
\* is read; an address's 404 before any product is read, the billing one
\* whenever the billing address was absent (the shipping one only when the
\* billing address was found); a product's 404 names the first entry of the
\* list that is absent, every entry before it having been resolved in order.
C25_GatesInOrder ==
    [][\A p \in Procs :
         /\ Rejects(p)
            => LET r == req'[p]
                   d == r.data
                   i == Len(req[p].contenidos) + 1
               IN  \/ /\ r.status = 400
                      /\ ~validate_nota_venta(d)[1]
                      /\ r.calls = <<>>
                   \/ /\ r.status = 404 /\ r.body.error = "Cliente no encontrado"
                      /\ validate_nota_venta(d)[1]
                      /\ d.cliente_id \notin DOMAIN clientes
                      /\ Names(r.calls) = {"clientes.get_item"}
                   \/ /\ r.status = 404
                      /\ r.body.error = "Direccion de facturacion no encontrada"
                      /\ ~req[p].dir_fact
                      /\ Names(r.calls) = {"clientes.get_item", "domicilios.get_item"}
                   \/ /\ r.status = 404
                      /\ r.body.error = "Direccion de envio no encontrada"
                      /\ req[p].dir_fact
                      /\ d.direccion_envio_id \notin DOMAIN domicilios
                      /\ Names(r.calls) = {"clientes.get_item", "domicilios.get_item"}
                   \/ /\ r.status = 404 /\ r.body.error = "Producto no encontrado"
                      /\ Count(r.calls, "domicilios.get_item", TRUE) = 2
                      /\ Count(r.calls, "productos.get_item", TRUE) = i
                      /\ r.body.producto_id = d.productos[i].producto_id
                      /\ r.body.producto_id \notin DOMAIN productos
                      /\ \A j \in 1..(i - 1) :
                            req[p].contenidos[j].producto_id = d.productos[j].producto_id
         /\ req[p].pc \in {"idle", "done"} /\ req'[p] # req[p] /\ req'[p].op = "create"
               /\ ~validate_nota_venta(req'[p].data)[1]
            => req'[p].pc = "done" /\ req'[p].status = 400
         /\ req[p].pc = "get_dir_envio" /\ req'[p] # req[p]
               /\ ~req[p].dir_fact /\ LastCallNext(p).ok
            => /\ req'[p].status = 404
               /\ req'[p].body.error = "Direccion de facturacion no encontrada"]_vars

\* C25 witness: both addresses of the request are absent and the answer is
\* the billing address's 404.
C25_Witness ==
    /\ req[1].op = "create" /\ req[1].pc = "done" /\ req[1].status = 404
    /\ req[1].body.error = "Direccion de facturacion no encontrada"
    /\ req[1].data.direccion_facturacion_id \notin DOMAIN domicilios
    /\ req[1].data.direccion_envio_id \notin DOMAIN domicilios
    /\ Count(req[1].calls, "domicilios.get_item", TRUE) = 2

\* The position of a line among the lines of its note, in the order in which
\* they were written (ids are issued in increasing serial order).
Posicion(l) ==
    1 + Cardinality({m \in LineasDe(contenido[l].nota_id) : m.lo < l.lo})

\* The line drafts or document rows `filas` follow the entries `entradas`.
Siguen(filas, entradas) ==
    /\ Len(filas) <= Len(entradas)
    /\ \A i \in 1..Len(filas) : filas[i].cantidad = entradas[i].cantidad

\* C26: at every moment of a create-note, and after it ended however it
\* ended, the line drafts are the first entries of the request in order, the
\* lines stored for its Note are the first `saved` entries in the order
\* written, and the rows of the document rendered and of the artifact stored
\* are all the entries in order, each with the name of its draft.
C26_LinesFollowRequestOrder ==
    \A p \in Creates :
        LET d == req[p].data.productos
            ls == LineasDe(req[p].nota.id)
        IN  /\ Siguen(req[p].contenidos, d)
            /\ \A i \in 1..Len(req[p].contenidos) :
                  req[p].contenidos[i].producto_id = d[i].producto_id
            /\ req[p].nota # NoNota
                  => /\ Cardinality(ls) = req[p].saved
                     /\ req[p].saved <= Len(d)
                     /\ \A l \in ls :
                           /\ contenido[l].producto_id = d[Posicion(l)].producto_id
                           /\ contenido[l].cantidad = d[Posicion(l)].cantidad
            /\ req[p].pdf # NoPdf
                  => /\ Len(req[p].pdf.filas) = Len(d)
                     /\ Siguen(req[p].pdf.filas, d)
                     /\ \A i \in 1..Len(d) :
                           req[p].pdf.filas[i].producto_nombre
                              = req[p].contenidos[i].producto_nombre
            /\ req[p].pc = "done" /\ req[p].status = 201
                  => LET filas == bucket[req[p].body.s3_key].body.filas
                     IN  /\ Len(filas) = Len(d)
                         /\ Siguen(filas, d)
                         /\ Siguen(req[p].body.contenidos, d)
                         /\ \A i \in 1..Len(d) :
                               /\ req[p].body.contenidos[i].producto_id = d[i].producto_id
                               /\ filas[i].producto_nombre
                                     = req[p].body.contenidos[i].producto_nombre

\* C26 witness: the write of the second of two lines of different products
\* failed; the one line stored is the first entry's.
C26_Witness ==
    /\ req[1].op = "create" /\ req[1].pc = "done" /\ req[1].status = 500
    /\ Len(req[1].data.productos) = 2 /\ req[1].saved = 1
    /\ req[1].data.productos[1].producto_id # req[1].data.productos[2].producto_id
    /\ \E l \in LineasDe(req[1].nota.id) :
          contenido[l].producto_id = req[1].data.productos[1].producto_id

\* The calendar date of a timestamp (one instant of the clock is one day).
DateOf(t) == t

\* C27: the date in the folio of every stored Note is the date of the Note's
\* created_at, whatever time passed between the steps of its request.
C27_FolioDateIsCreationDate ==
    \A id \in DOMAIN notas : notas[id].folio[1] = DateOf(notas[id].created_at)

\* C28: when a download and a put race on a stored address, the download's
\* write-back leaves the address with a send counter not lower than the one
\* it replaces and with the bytes it replaces: it never puts back the counter
\* or the bytes that a send completed in the meantime has superseded.
C28_DownloadNeverRevertsSend ==
    [][\A k \in DOMAIN bucket :
         DlWrote(k)
         => /\ Veces(bucket', k) >= Veces(bucket, k)
            /\ bucket'[k].body = bucket[k].body]_vars

\* The head_object of p's put did not give a send counter: the address holds
\* nothing, the store did not answer, or the object has no counter entry.
SinContador(p, ok) ==
    \/ req[p].key \notin DOMAIN bucket
    \/ ~ok
    \/ "veces_enviado" \notin DOMAIN bucket[req[p].key].metadata

\* C29: whenever the head_object of subir_pdf_s3 gives no send counter, for
\* any of the three reasons, the call goes on to its put_object with counter
\* 1; and the put_object of such a call that the store accepts writes the
\* document with send counter 1 and the downloaded flag false and the call
\* returns normally.
C29_FailedHeadIsAbsent ==
    [][\A p \in Procs :
         /\ req[p].pc = "s3_head" /\ req'[p] # req[p]
            => /\ req'[p].pc = "s3_put"
               /\ req'[p].key = req[p].key /\ req'[p].pdf = req[p].pdf
               /\ UNCHANGED bucket
               /\ \A ok \in BOOLEAN :
                     LastCallNext(p).ok = (ok /\ req[p].key \in DOMAIN bucket)
                        /\ SinContador(p, ok)
                     => req'[p].veces_enviado = 1
         /\ req[p].pc = "s3_put" /\ req'[p] # req[p]
               /\ req[p].veces_enviado = 1 /\ LastCallNext(p).ok
            => /\ bucket'[req[p].key]
                     = [body |-> req[p].pdf,
                        metadata |-> [hora_envio |-> clock, nota_descargada |-> "false",
                                      veces_enviado |-> 1]]
               /\ req'[p].pc = "done" /\ req'[p].status # 500]_vars

\* C29 witness: the head_object of a put to an address that holds a document
\* sent twice failed, and the call is about to write it with counter 1.
C29_Witness ==
    /\ req[1].op = "put" /\ req[1].pc = "s3_put"
    /\ req[1].key \in DOMAIN bucket
    /\ "veces_enviado" \in DOMAIN bucket[req[1].key].metadata
    /\ bucket[req[1].key].metadata.veces_enviado = 2
    /\ LastCall(1) = Call("s3.head_object", FALSE)
    /\ req[1].veces_enviado = 1

\* C30: every stored NoteLine names a stored Note, at every moment of a
\* create-note and whatever the catalog operations and get-note requests
\* interleaved with it; and the lines that a get-note reports are stored lines
\* of the stored Note it reports.
C30_LinesHaveTheirNote ==
    /\ \A l \in DOMAIN contenido : contenido[l].nota_id \in DOMAIN notas
    /\ \A p \in Procs :
          req[p].op = "get" /\ req[p].pc = "done" /\ req[p].status = 200
          => /\ req[p].body.nota.id \in DOMAIN notas
             /\ \A c \in req[p].body.contenidos :
                   /\ c.id \in DOMAIN contenido
                   /\ contenido[c.id].nota_id = req[p].body.nota.id

\* C30 witness: while a create-note has written the first of its two lines, a
\* get-note of its Note was answered 200 with that one line.
C30_Witness ==
    /\ req[1].op = "create" /\ req[1].pc = "put_contenido" /\ req[1].saved = 1
    /\ req[2].op = "get" /\ req[2].pc = "done" /\ req[2].status = 200
    /\ req[2].body.nota.id = req[1].nota.id
    /\ Cardinality(req[2].body.contenidos) = 1

\* C31: a download request without rfc or without folio is answered 400 by
\* its first step, before any call to the bucket; the head_object step of a
\* download whose address holds nothing answers 404; and neither step changes
\* the bucket, which holds nothing at that address afterwards.
C31_AbsentDownloadChangesNothing ==
    [][\A p \in Procs :
         /\ DlStarts(p) /\ (req'[p].key[1] = "" \/ req'[p].key[2][2] = ""
                            \/ req'[p].pc = "done")
            => /\ req'[p].pc = "done" /\ req'[p].status = 400
               /\ req'[p].calls = <<>>
               /\ UNCHANGED stores
         /\ req[p].op = "download" /\ req[p].pc = "dl_head" /\ req'[p] # req[p]
               /\ req[p].key \notin DOMAIN bucket
            => /\ req'[p].pc = "done" /\ req'[p].status = 404
               /\ req'[p].calls = <<Call("s3.head_object", FALSE)>>
               /\ UNCHANGED stores
               /\ req[p].key \notin DOMAIN bucket']_vars

\* C31 witness: a download of an address that holds nothing was answered 404
\* while the bucket holds another document.
C31_Witness ==
    /\ req[1].op = "download" /\ req[1].pc = "done" /\ req[1].status = 404
    /\ req[1].calls = <<Call("s3.head_object", FALSE)>>
    /\ bucket # EmptyMap /\ OtherKey \notin DOMAIN bucket
    /\ \A k \in DOMAIN bucket : Descargada(bucket, k) = "false"

\* A step that is a get-note request of p.
GetStarts(p) ==
    /\ req[p].pc \in {"idle", "done"}
    /\ req'[p] # req[p] /\ req'[p].op = "get"

\* The customer, the addresses and the products of the lines of a stored Note
\* are all in the catalog.
Referidos(id) ==
    /\ notas[id].cliente_id \in DOMAIN clientes
    /\ notas[id].direccion_facturacion_id \in DOMAIN domicilios
    /\ notas[id].direccion_envio_id \in DOMAIN domicilios
    /\ \A l \in LineasDe(id) : contenido[l].producto_id \in DOMAIN productos

\* C32: a get-note changes no table, no artifact and no topic.  When its
\* reads answer, it returns 404 for an absent Note key; 200 with the Note, its
\* customer, its addresses and its lines when all the records the Note refers
\* to exist; and otherwise it raises, the handler's error path answering 500.
C32_GetNoteReadOnly ==
    /\ [][\A p \in Procs :
            /\ GetStarts(p)
               => /\ UNCHANGED <<catalog, stores>>
                  /\ LET id == req'[p].nota.id
                     IN  req'[p].calls[1].ok
                         => /\ id \notin DOMAIN notas
                               => req'[p].pc = "done" /\ req'[p].status = 404
                            /\ id \in DOMAIN notas /\ Referidos(id)
                               => /\ req'[p].pc = "done" /\ req'[p].status = 200
                                  /\ req'[p].body.nota = notas[id]
                                  /\ req'[p].body.cliente = clientes[notas[id].cliente_id]
                                  /\ {c.id : c \in req'[p].body.contenidos} = LineasDe(id)
                            /\ id \in DOMAIN notas /\ ~Referidos(id)
                               => req'[p].pc = "error_metric"
            /\ req[p].op = "get" /\ req[p].pc = "error_metric" /\ req'[p] # req[p]
               => /\ req'[p].pc = "done" /\ req'[p].status = 500
                  /\ UNCHANGED <<catalog, stores>>]_vars
    /\ [](\A p \in Procs :
            req[p].op = "get" /\ req[p].pc = "done" => req[p].status \in {200, 404, 500})

\* C32 witness: a get-note of a stored Note with its two lines, whose
\* customer is not in the catalog, raised and is in the handler's error path.
C32_Witness ==
    /\ req[1].op = "get" /\ req[1].pc = "error_metric"
    /\ req[1].calls = <<Call("get_nota_venta", TRUE)>>
    /\ req[1].nota.id \in DOMAIN notas
    /\ Cardinality(LineasDe(req[1].nota.id)) = 2
    /\ notas[req[1].nota.id].cliente_id \notin DOMAIN clientes
    /\ notas[req[1].nota.id].direccion_facturacion_id \in DOMAIN domicilios
    /\ notas[req[1].nota.id].direccion_envio_id \in DOMAIN domicilios
    /\ \A l \in LineasDe(req[1].nota.id) : contenido[l].producto_id \in DOMAIN productos

\* A record whose message the consumer notifies: from SNS, a JSON object with
\* email, folio and rfc.
Entregable(record) ==
    /\ record.EventSource = "aws:sns"
    /\ record.Message.tipo = "objeto"
    /\ ~Falta(record.Message.data)

Entregables(event) ==
    Cardinality({i \in 1..Len(event.Records) : Entregable(event.Records[i])})

\* C33: an invocation of the consumer with SNS records returns 200 whatever
\* its records hold, and has made one publish attempt for every record from
\* SNS whose message has email, folio and rfc, and none for the others.
C33_SnsAlwaysReturns200 ==
    \A p \in Procs :
        req[p].op = "sns" /\ req[p].pc = "done"
            => /\ req[p].status = 200
               /\ Publishes(req[p].calls) = Entregables(req[p].event)

\* The number of messages among the first n of the topic that are JSON (the
\* saga's events) or are not (the consumer's notifications).
DeTipo(n, json) == Cardinality({i \in 1..n : topic[i].json = json})

\* A step in which the consumer handles a message.
Consume == delivered' = delivered + 1

\* C34: a plain-text message handed to the consumer produces no publish, and
\* what the consumer publishes is plain text; the topic holds at most one event
\* per stored Note and at most one notification per event handed to the
\* consumer; and from some moment on every published message has been handled
\* and nothing more is published.
C34_PipelineStops ==
    /\ [][Consume => /\ Len(topic') <= Len(topic) + 1
                     /\ ~topic[delivered + 1].json => topic' = topic
                     /\ topic' # topic => ~topic'[Len(topic')].json]_vars
    /\ [](/\ DeTipo(Len(topic), TRUE) <= Cardinality(DOMAIN notas)
          /\ DeTipo(Len(topic), FALSE) <= DeTipo(delivered, TRUE)
          /\ Len(topic) <= 2 * Cardinality(DOMAIN notas))
    /\ <>[](delivered = Len(topic))

\* C34 witness: the saga's event was notified, the notification came back to
\* the consumer and was handled, and the topic holds just the two.
C34_Witness ==
    /\ Len(topic) = 2 /\ delivered = 2
    /\ topic[1].json /\ ~topic[2].json
    /\ \E p \in Procs : req[p].op = "create" /\ req[p].status = 201

\* The fields a direct request carries: those of its 'body' when it is a JSON
\* object, none when it is other JSON, and else those of the event.
CamposDe(event) ==
    CASE event.body.tipo = "objeto" -> event.body.data
      [] event.body.tipo = "escalar" -> NoCampos
      [] OTHER -> event.data

\* C35: a direct invocation that lacks email, folio or rfc returns 400 and
\* has made no publish; any other has made one publish attempt and returns
\* 200 when it succeeded, 400 on an invalid parameter, 404 when the topic is
\* not found and 500 on any other failure.
C35_DirectStatus ==
    \A p \in Procs :
        req[p].op = "http" /\ req[p].pc = "done"
            => IF Falta(CamposDe(req[p].event))
               THEN req[p].status = 400 /\ Publishes(req[p].calls) = 0
               ELSE /\ Publishes(req[p].calls) = 1
                    /\ req[p].resultado = "ok" => req[p].status = 200
                    /\ req[p].resultado = "InvalidParameter" => req[p].status = 400
                    /\ req[p].resultado = "NotFound" => req[p].status = 404
                    /\ req[p].resultado = "Exception" => req[p].status = 500

\* Calls of enviar_metrica for a metric, and those whose data point
\* CloudWatch took.
Llamadas(calls, name) == Count(calls, name, TRUE) + Count(calls, name, FALSE)

Emitidas(calls, name) == Count(calls, name, TRUE)

\* No delivery attempt of the invocation is under way.
EntreIntentos(p) ==
    req[p].op \in {"sns", "http"} /\ req[p].pc \in {"record", "done"}

\* A step of p that is a call of enviar_metrica.
EnviaMetrica(p) ==
    /\ req[p].op \in {"sns", "http"} /\ req[p].pc = "metrica"
    /\ req'[p] # req[p]

\* C36 as stated: after any number of delivery attempts of an invocation, the
\* 'NotificacionesEnviadas' counter has received one data point per attempt
\* and as many as 'NotificacionesExitosas' and 'NotificacionesFallidas'
\* together.
C36_SentIsSucceededPlusFailed ==
    \A p \in Procs :
        EntreIntentos(p)
            => /\ Emitidas(req[p].calls, "NotificacionesEnviadas") = Publishes(req[p].calls)
               /\ Emitidas(req[p].calls, "NotificacionesEnviadas")
                    = Emitidas(req[p].calls, "NotificacionesExitosas")
                        + Emitidas(req[p].calls, "NotificacionesFallidas")

\* C36: after any number of delivery attempts of an invocation,
\* enviar_metrica has been called once per attempt for
\* 'NotificacionesEnviadas', once per successful publish for
\* 'NotificacionesExitosas' and once per failed publish for
\* 'NotificacionesFallidas', each counter holding at most one data point per
\* call; and a call of enviar_metrica, whether put_metric_data fails or not,
\* changes neither the status the attempt has set, nor its outcome, nor the
\* topic, nor what the handler does next.
C36_MetricAccounting ==
    /\ [](\A p \in Procs :
            EntreIntentos(p)
                => LET calls == req[p].calls
                   IN  /\ Llamadas(calls, "NotificacionesEnviadas") = Publishes(calls)
                       /\ Llamadas(calls, "NotificacionesExitosas")
                            = Count(calls, "sns.publish", TRUE)
                       /\ Llamadas(calls, "NotificacionesFallidas")
                            = Count(calls, "sns.publish", FALSE)
                       /\ Llamadas(calls, "NotificacionesEnviadas")
                            = Llamadas(calls, "NotificacionesExitosas")
                                + Llamadas(calls, "NotificacionesFallidas")
                       /\ Emitidas(calls, "NotificacionesEnviadas") <= Publishes(calls))
    /\ [][\A p \in Procs :
            EnviaMetrica(p)
                => /\ req'[p].status = req[p].status
                   /\ req'[p].resultado = req[p].resultado
                   /\ UNCHANGED stores
                   /\ req'[p].pc = IF Len(req[p].metricas) > 1 THEN "metrica"
                                   ELSE IF req[p].sigue = "record" THEN "record"
                                   ELSE "done"]_vars

\* C36 witness: an invocation with two delivery attempts, one that succeeded
\* and one that failed, returned 200 although the 'NotificacionesEnviadas'
\* data point of an attempt was refused.
C36_Witness ==
    /\ req[1].op = "sns" /\ req[1].pc = "done" /\ req[1].status = 200
    /\ Count(req[1].calls, "sns.publish", TRUE) = 1
    /\ Count(req[1].calls, "sns.publish", FALSE) = 1
    /\ Count(req[1].calls, "NotificacionesEnviadas", FALSE) = 1
    /\ Count(req[1].calls, "NotificacionesEnviadas", TRUE) = 1
    /\ Count(req[1].calls, "NotificacionesFallidas", TRUE) = 1
    /\ Count(req[1].calls, "NotificacionesExitosas", TRUE) = 1

====
